---- MODULE Spec2Model ----
(***************************************************************************)
(* env-coach: the LLM-response interpretation and file-mutation pipeline   *)
(* (src/auto_update/*.rs) and the commands that drive it.                   *)
(*                                                                         *)
(* Text that the code searches or splits is a sequence of fragments        *)
(* (single characters for Cargo.toml lines, words for documents); text     *)
(* that the code only stores or copies is a TLA+ string.                   *)
(***************************************************************************)
EXTENDS Integers, Sequences, FiniteSets, TLC

VARIABLES
    cargo,                 \* Cargo.toml in the current directory
    files,                 \* the other files: path -> sequence of written chunks
    tech_stack,            \* project.meta.tech_stack
    pc,                    \* position in process_llm_response (CodeGeneration)
    llm_response,          \* the response being processed
    auto_approve_deps,
    auto_approve_code,
    cargo_deps_to_add,                  \* updater.rs:154
    source_code_suggestions_collected,  \* updater.rs:155
    idx,                   \* 1-based position of the source-code loop
    skip_remaining_code,   \* updater.rs:196
    reads,                 \* number of input lines read by read_testable_line
    retries,               \* reads that made no decision (details / invalid)
    last_choice,           \* the last line read, trimmed and lower-cased
    result,                \* "none" | "ok" | "err"
    route,                 \* "none" | "structured" | "fallback"
    hist,                  \* history of one run: approvals and effects
    runs,                  \* how many times the response has been processed
    first,                 \* cargo and files as the first processing left them
    call,                  \* SpecCargo: the calls of add_cargo_dependencies so far
    readme,                \* README.md
    changelog,             \* CHANGELOG.md
    backlog,               \* project.backlog
    doc,                   \* SpecDocs: the last complete-task command
    config,                \* SpecConfig: config.json, project.json, the loaded Project
    fileop,                \* SpecFiles: the last file operation called on its own
    req,                   \* SpecReq: the last requirement-analysis response
    planning               \* SpecPlan: the project of plan-sprint and its last run

vars == <<cargo, files, tech_stack, pc, llm_response, auto_approve_deps,
          auto_approve_code, cargo_deps_to_add, source_code_suggestions_collected,
          idx, skip_remaining_code, reads, retries, last_choice, result, route,
          hist, runs, first, call, readme, changelog, backlog, doc, config, fileop,
          req, planning>>

\* what the processing of an LLM response for a task leaves alone
docVars == <<readme, changelog, backlog, doc>>
auxVars == <<config, fileop, req, planning>>

-----------------------------------------------------------------------------
(* Bounds of the model *)

\* longest "suggestions" array of a response
MaxSuggestions == 2
\* non-deciding answers (details / invalid) accepted in one processing
MaxRetries == 1
\* lines handed to one call of add_cargo_dependencies in SpecCargo
MaxLines == 2
\* pieces (code blocks, prose) of a plain-text response
MaxPieces == 2

-----------------------------------------------------------------------------
(* Generic helpers *)

Range(s) == {s[i] : i \in 1..Len(s)}

RECURSIVE SeqsUpTo(_, _)
\* all sequences over S of length 0..n
SeqsUpTo(S, n) ==
    IF n = 0 THEN {<<>>}
    ELSE LET shorter == SeqsUpTo(S, n - 1)
         IN  shorter \cup {Append(s, x) : s \in {t \in shorter : Len(t) = n - 1}, x \in S}

\* str::trim on a sequence of characters (whitespace is " ")
RECURSIVE TrimStart(_)
TrimStart(s) == IF s # <<>> /\ Head(s) = " " THEN TrimStart(Tail(s)) ELSE s

RECURSIVE TrimEnd(_)
TrimEnd(s) ==
    IF s # <<>> /\ s[Len(s)] = " " THEN TrimEnd(SubSeq(s, 1, Len(s) - 1)) ELSE s

Trim(s) == TrimEnd(TrimStart(s))

\* str::trim_matches('"')
RECURSIVE TrimQuotesStart(_)
TrimQuotesStart(s) ==
    IF s # <<>> /\ Head(s) = "\"" THEN TrimQuotesStart(Tail(s)) ELSE s

RECURSIVE TrimQuotesEnd(_)
TrimQuotesEnd(s) ==
    IF s # <<>> /\ s[Len(s)] = "\""
    THEN TrimQuotesEnd(SubSeq(s, 1, Len(s) - 1)) ELSE s

TrimMatchesQuote(s) == TrimQuotesEnd(TrimQuotesStart(s))

\* position of the first c in s, 0 when there is none
FirstIndexOf(s, c) ==
    IF \E i \in 1..Len(s) : s[i] = c
    THEN CHOOSE i \in 1..Len(s) : s[i] = c /\ \A j \in 1..(i - 1) : s[j] # c
    ELSE 0

-----------------------------------------------------------------------------
(* Cargo.toml and add_cargo_dependencies (cargo_toml_updater.rs)           *)
(*                                                                         *)
(* cargo.state is "missing" (no file), "invalid" (the file does not parse, *)
(* or [dependencies] is not a table) or "table"; cargo.deps is the         *)
(* [dependencies] table in file order, entries [key, val].                 *)

Digits == {"0", "1", "2", "3"}

NoCargo == [state |-> "missing", deps |-> <<>>]
BadCargo == [state |-> "invalid", deps |-> <<>>]
CargoTable(deps) == [state |-> "table", deps |-> deps]

\* Table::contains_key
ContainsKey(deps, key) == \E i \in 1..Len(deps) : deps[i].key = key

\* Table::insert: replaces the value of a key the table has, appends otherwise
TableInsert(deps, key, val) ==
    IF ContainsKey(deps, key)
    THEN [i \in 1..Len(deps) |->
            IF deps[i].key = key THEN [key |-> key, val |-> val] ELSE deps[i]]
    ELSE Append(deps, [key |-> key, val |-> val])

\* "temp_key = <value_str>" parsed as a TOML document: the values of the
\* model are integers and basic strings without escapes or inner quotes
IsTomlInteger(v) == v # <<>> /\ \A i \in 1..Len(v) : v[i] \in Digits
IsTomlString(v) ==
    /\ Len(v) >= 2
    /\ v[1] = "\"" /\ v[Len(v)] = "\""
    /\ \A i \in 2..(Len(v) - 1) : v[i] # "\""
ParsesAsTomlValue(v) == IsTomlInteger(v) \/ IsTomlString(v)

\* the item the dummy document holds under temp_key
TomlItem(v) ==
    IF IsTomlInteger(v) THEN [type |-> "integer", text |-> v]
    ELSE [type |-> "string", text |-> SubSeq(v, 2, Len(v) - 1)]

\* toml_value(simple_value_str)
TomlSimpleString(v) == [type |-> "string", text |-> TrimMatchesQuote(v)]

\* line.splitn(2, '=').map(str::trim)
SplitKeyValue(line) ==
    LET eq == FirstIndexOf(line, "=")
    IN  IF eq = 0 THEN <<Trim(line)>>
        ELSE <<Trim(SubSeq(line, 1, eq - 1)), Trim(SubSeq(line, eq + 1, Len(line)))>>

\* one iteration of the loop over dependency_lines; acc = [deps, added_any]
AddOneLineNoContainsCheck(acc, raw) ==
    LET line == Trim(raw)
        parts == SplitKeyValue(line)
    IN  IF line = <<>> \/ Head(line) = "#" THEN acc
        ELSE IF Len(parts) # 2 THEN acc
        ELSE IF ParsesAsTomlValue(parts[2])
             THEN [deps |-> TableInsert(acc.deps, parts[1], TomlItem(parts[2])),
                   added_any |-> TRUE]
        ELSE IF parts[2] # <<>> /\ Head(parts[2]) = "\"" /\ parts[2][Len(parts[2])] = "\""
             THEN [deps |-> TableInsert(acc.deps, parts[1], TomlSimpleString(parts[2])),
                   added_any |-> TRUE]
        ELSE acc

AddOneLine(acc, raw) ==
    LET line == Trim(raw)
        parts == SplitKeyValue(line)
    IN  IF line = <<>> \/ Head(line) = "#" THEN acc
        ELSE IF Len(parts) # 2 THEN acc
        ELSE IF ContainsKey(acc.deps, parts[1]) THEN acc
        ELSE IF ParsesAsTomlValue(parts[2])
             THEN [deps |-> TableInsert(acc.deps, parts[1], TomlItem(parts[2])),
                   added_any |-> TRUE]
        ELSE IF parts[2] # <<>> /\ Head(parts[2]) = "\"" /\ parts[2][Len(parts[2])] = "\""
             THEN [deps |-> TableInsert(acc.deps, parts[1], TomlSimpleString(parts[2])),
                   added_any |-> TRUE]
        ELSE acc

RECURSIVE AddLines(_, _)
AddLines(acc, lines) ==
    IF lines = <<>> THEN acc ELSE AddLines(AddOneLine(acc, Head(lines)), Tail(lines))

\* add_cargo_dependencies: [ok, cargo]; the file is rewritten only when a
\* line was added
AddCargoDependencies(c, lines) ==
    IF c.state # "table" THEN [ok |-> FALSE, cargo |-> c]
    ELSE LET r == AddLines([deps |-> c.deps, added_any |-> FALSE], lines)
         IN  [ok |-> TRUE,
              cargo |-> IF r.added_any THEN CargoTable(r.deps) ELSE c]

\* dependency lines of the model
Line_a1 == <<"a", " ", "=", " ", "1">>
Line_a2 == <<" ", "a", "=", "2", " ">>
Line_b2 == <<"b", "=", "2">>
Line_bq == <<"b", " ", "=", "\"", "1", "\"">>
Line_cq == <<"c", "=", "\"", "1", "\"", "2", "\"">>
Line_cx == <<"c", "=", "x">>
Line_comment == <<"#", "a", "=", "3">>
Line_blank == <<" ">>
Line_nokey == <<"a", "b">>

LinePool == {Line_a1, Line_a2, Line_b2, Line_bq, Line_cq, Line_cx,
             Line_comment, Line_blank, Line_nokey}

Dep_a0 == [key |-> <<"a">>, val |-> [type |-> "integer", text |-> <<"0">>]]
Dep_b0 == [key |-> <<"b">>, val |-> [type |-> "string", text |-> <<"0">>]]

CargoPool == {NoCargo, BadCargo, CargoTable(<<>>), CargoTable(<<Dep_a0>>),
              CargoTable(<<Dep_b0, Dep_a0>>)}

-----------------------------------------------------------------------------
(* Files other than Cargo.toml: files[path] is the content as the sequence *)
(* of chunks written; a path outside DOMAIN files does not exist.          *)

\* the bytes of a &str as chunks: the empty string writes nothing
Text(content) == IF content = "" THEN <<>> ELSE <<content>>

Exists(fs, path) == path \in DOMAIN fs

WriteFile(fs, path, data) ==
    [p \in DOMAIN fs \cup {path} |-> IF p = path THEN data ELSE fs[p]]

\* create_file that writes over a file that exists
CreateFileOverwriting(fs, file_path, content) ==
    [ok |-> TRUE, files |-> WriteFile(fs, file_path, Text(content))]

\* replace_file_content that creates the file when it is missing
ReplaceOrCreate(fs, file_path, new_content) ==
    [ok |-> TRUE, files |-> WriteFile(fs, file_path, Text(new_content))]

\* append_to_file without the newline after the content
AppendWithoutNewline(fs, file_path, content_to_append) ==
    LET old == IF Exists(fs, file_path) THEN fs[file_path] ELSE <<>>
    IN  [ok |-> TRUE, files |-> WriteFile(fs, file_path, old \o Text(content_to_append))]

\* code_gen.rs create_file: [ok, files]
create_file(fs, file_path, content) ==
    IF Exists(fs, file_path) THEN [ok |-> FALSE, files |-> fs]
    ELSE [ok |-> TRUE, files |-> WriteFile(fs, file_path, Text(content))]

\* code_gen.rs replace_file_content
replace_file_content(fs, file_path, new_content) ==
    IF ~Exists(fs, file_path) THEN [ok |-> FALSE, files |-> fs]
    ELSE [ok |-> TRUE, files |-> WriteFile(fs, file_path, Text(new_content))]

\* append_to_file that leaves a file alone when it holds the content already
AppendUnlessPresent(fs, file_path, content_to_append) ==
    IF Exists(fs, file_path) /\ content_to_append \in Range(fs[file_path])
    THEN [ok |-> TRUE, files |-> fs]
    ELSE LET old == IF Exists(fs, file_path) THEN fs[file_path] ELSE <<>>
         IN  [ok |-> TRUE,
              files |-> WriteFile(fs, file_path,
                                  old \o Text(content_to_append) \o <<"\n">>)]

\* code_gen.rs append_to_file: creates the file when missing; writes the
\* content and then a newline
append_to_file(fs, file_path, content_to_append) ==
    LET old == IF Exists(fs, file_path) THEN fs[file_path] ELSE <<>>
    IN  [ok |-> TRUE,
         files |-> WriteFile(fs, file_path, old \o Text(content_to_append) \o <<"\n">>)]

-----------------------------------------------------------------------------
(* Suggestions and parse_assist_task_response (llm_parsers.rs)             *)
(*                                                                         *)
(* A response is [json_ok, has_suggestions, suggestions, text]: json_ok    *)
(* says the text is syntactically one JSON object, has_suggestions that    *)
(* the object has the "suggestions" array, suggestions are the array's     *)
(* objects as written, text the lines of the raw text that matter to       *)
(* extract_code_blocks. import_statement is <<>> (None) or <<stmt>>.       *)

SuggestionActions == {"create", "replace", "append_to_file", "replace_function",
                      "append_to_function", "add_import"}

SuggestionTypes == {"cargo_dependency", "source_code", "general_advice"}

Suggestion(type, lines, target, action, content, import) ==
    [type |-> type, dependency_lines |-> lines, target_file |-> target,
     action |-> action, content |-> content, import_statement |-> import]

CargoDependency(lines) == Suggestion("cargo_dependency", lines, "", "", "", <<>>)
SourceCode(target, action, content, import) ==
    Suggestion("source_code", <<>>, target, action, content, import)
GeneralAdvice(content) == Suggestion("general_advice", <<>>, "", "", content, <<>>)
UnknownType == Suggestion("unknown_type", <<>>, "", "", "some data", <<>>)

\* serde: an internally tagged enum rejects a tag that names no variant, and
\* SuggestionAction rejects a string that names no action
DeserializesSuggestion(s) ==
    /\ s.type \in SuggestionTypes
    /\ s.type = "source_code" => s.action \in SuggestionActions

\* lenient variant: objects that do not deserialize are dropped
ParseSkippingBadSuggestions(resp) ==
    [ok |-> resp.json_ok /\ resp.has_suggestions,
     suggestions |-> SelectSeq(resp.suggestions, DeserializesSuggestion)]

\* parse_assist_task_response: [ok, suggestions]
parse_assist_task_response(resp) ==
    IF /\ resp.json_ok
       /\ resp.has_suggestions
       /\ \A i \in 1..Len(resp.suggestions) : DeserializesSuggestion(resp.suggestions[i])
    THEN [ok |-> TRUE, suggestions |-> resp.suggestions]
    ELSE [ok |-> FALSE, suggestions |-> <<>>]

\* updater.rs:158-172: the two collections built from the parsed suggestions
RECURSIVE FlattenLines(_)
FlattenLines(suggs) ==
    IF suggs = <<>> THEN <<>>
    ELSE (IF Head(suggs).type = "cargo_dependency"
          THEN Head(suggs).dependency_lines ELSE <<>>) \o FlattenLines(Tail(suggs))

\* every suggestion that is no dependency goes to the source-code loop
IsNotDependency(s) == s.type # "cargo_dependency"

IsSourceCode(s) == s.type = "source_code"
CollectSourceCode(suggs) == SelectSeq(suggs, IsSourceCode)

-----------------------------------------------------------------------------
(* The code-block fallback (code_gen.rs)                                   *)
(*                                                                         *)
(* A line of raw text is [fence, rest]: fence says the line starts with    *)
(* three backticks, rest is the line after them (the whole line when it    *)
(* has no fence).                                                          *)

Fence(rest) == [fence |-> TRUE, rest |-> rest]
Plain(rest) == [fence |-> FALSE, rest |-> rest]

\* str::trim().to_lowercase() of the fence tags of the model
TrimLowerTag(rest) ==
    CASE rest = "rust" -> "rust"
      [] rest = " Rust " -> "rust"
      [] rest = "python" -> "python"
      [] rest = "json" -> "json"
      [] rest = " " -> ""
      [] OTHER -> rest

\* extract_language_from_line: <<>> is None
extract_language_from_line(line) ==
    IF line.fence
    THEN LET lang == TrimLowerTag(line.rest)
         IN  IF lang # "" THEN <<lang>> ELSE <<>>
    ELSE <<>>

\* str::contains on the code lines of the model
LineContains(rest, needle) ==
    CASE rest = "fn main() {}" -> needle \in {"fn main()"}
      [] rest = "mod tests {}" -> needle \in {"mod tests"}
      [] rest = "pub struct S;" -> needle \in {"pub struct"}
      [] rest = "impl S {}" -> needle \in {"impl "}
      [] rest = "class C:" -> needle \in {"class "}
      [] rest = "if __name__ == \"__main__\":" -> needle \in {"if __name__ == \"__main__\""}
      [] rest = "export default 1" -> needle \in {"export"}
      [] rest = "func main() {}" -> needle \in {"func main()"}
      [] OTHER -> FALSE

CodeContains(code, needle) == \E i \in 1..Len(code) : LineContains(code[i].rest, needle)

IsBlankLine(rest) == rest \in {"", " "}

\* get_primary_language
RECURSIVE get_primary_language(_)
get_primary_language(stack) ==
    IF stack = <<>> THEN "rust"
    ELSE CASE Head(stack) = "rust" -> "rust"
           [] Head(stack) = "nodejs" -> "javascript"
           [] Head(stack) = "python" -> "python"
           [] Head(stack) = "go" -> "go"
           [] Head(stack) = "java" -> "java"
           [] OTHER -> get_primary_language(Tail(stack))

\* guess_filename_for_language (java class names are not modelled: the
\* model has no java blocks with a class line)
guess_filename_for_language(stack, code, language, index) ==
    LET n == ToString(index)
    IN  CASE language = "rust" ->
               IF CodeContains(code, "fn main()") THEN "src/main.rs"
               ELSE IF CodeContains(code, "#[cfg(test)]") \/ CodeContains(code, "mod tests")
                    THEN "src/tests.rs"
               ELSE IF CodeContains(code, "pub struct") \/ CodeContains(code, "pub enum")
                    THEN "src/lib_" \o n \o ".rs"
               ELSE IF CodeContains(code, "impl ") THEN "src/module_" \o n \o ".rs"
               ELSE "src/generated_" \o n \o ".rs"
          [] language \in {"javascript", "js"} ->
               IF CodeContains(code, "module.exports") \/ CodeContains(code, "export")
               THEN "src/module_" \o n \o ".js"
               ELSE "src/generated_" \o n \o ".js"
          [] language \in {"python", "py"} ->
               IF CodeContains(code, "if __name__ == \"__main__\"") THEN "main.py"
               ELSE IF CodeContains(code, "class ") THEN "src/class_" \o n \o ".py"
               ELSE "src/module_" \o n \o ".py"
          [] language = "go" ->
               IF CodeContains(code, "func main()") THEN "main.go"
               ELSE "src/module_" \o n \o ".go"
          [] language = "java" -> "src/Generated_" \o n \o ".java"
          [] OTHER ->
               LET primary == get_primary_language(stack)
                   extension == CASE primary = "rust" -> "rs"
                                  [] primary = "javascript" -> "js"
                                  [] primary = "python" -> "py"
                                  [] primary = "go" -> "go"
                                  [] primary = "java" -> "java"
                                  [] OTHER -> "txt"
               IN  "src/generated_" \o n \o "." \o extension

\* index of the first fence line at or after i, Len(lines) + 1 when none
RECURSIVE NextFence(_, _)
NextFence(lines, i) ==
    IF i > Len(lines) \/ lines[i].fence THEN i ELSE NextFence(lines, i + 1)

\* the code of a block as written to disk: every line followed by "\n"
RECURSIVE CodeText(_)
CodeText(code) ==
    IF code = <<>> THEN <<>>
    ELSE Text(Head(code).rest) \o <<"\n">> \o CodeText(Tail(code))

\* extract_code_blocks: the loop from line i on, blocks found so far
RECURSIVE ExtractFrom(_, _, _, _)
ExtractFrom(stack, lines, i, code_blocks) ==
    IF i > Len(lines) THEN code_blocks
    ELSE LET lang == extract_language_from_line(lines[i])
         IN  IF lang # <<>>
             THEN LET end == NextFence(lines, i + 1)
                      code == SubSeq(lines, i + 1, end - 1)
                      nonblank == \E k \in 1..Len(code) : ~IsBlankLine(code[k].rest)
                      filename == guess_filename_for_language(
                                      stack, code, lang[1], Len(code_blocks))
                  IN  ExtractFrom(stack, lines, end + 1,
                          IF nonblank
                          THEN Append(code_blocks, [filename |-> filename, code |-> code])
                          ELSE code_blocks)
             ELSE ExtractFrom(stack, lines, i + 1, code_blocks)

extract_code_blocks(stack, lines) == ExtractFrom(stack, lines, 1, <<>>)

\* generate_code_files: writes each block to its guessed path unless a file
\* is there already
RECURSIVE WriteBlocks(_, _)
WriteBlocks(fs, blocks) ==
    IF blocks = <<>> THEN fs
    ELSE LET b == Head(blocks)
         IN  WriteBlocks(IF Exists(fs, b.filename) THEN fs
                         ELSE WriteFile(fs, b.filename, CodeText(b.code)),
                         Tail(blocks))

generate_code_files(fs, stack, lines) == WriteBlocks(fs, extract_code_blocks(stack, lines))

-----------------------------------------------------------------------------
(* AutoUpdater::handle_code_generation_suggestions (updater.rs:120-270)    *)
(* as reached from process_llm_response with UpdateContext::CodeGeneration *)

\* lines the input source can deliver; "" is what read_line leaves at end
\* of input
InputLines == {"yes\n", " Y\n", "no\n", "details\n", "S\n", ""}

\* the line could not be read: the test iterator is exhausted or stdin fails
InputError == "<input error>"

\* user_choice.trim().to_lowercase()
TrimLower(line) ==
    CASE line = "yes\n" -> "yes"
      [] line = " Y\n" -> "y"
      [] line = "no\n" -> "no"
      [] line = "N\n" -> "n"
      [] line = "details\n" -> "details"
      [] line = "d\n" -> "d"
      [] line = "skip_all_code\n" -> "skip_all_code"
      [] line = "S\n" -> "s"
      [] line = "maybe\n" -> "maybe"
      [] OTHER -> line

\* any answer adds the dependencies
ConfirmsAnything(choice) == TRUE

\* updater.rs:180
ConfirmsDeps(choice) == choice \in {"yes", "y"}

\* "skip_all_code" skips the one suggestion and stops nothing
CodeChoiceSkipOnlyThis(choice) ==
    CASE choice \in {"yes", "y"} -> "apply"
      [] choice \in {"no", "n", "skip_all_code", "s"} -> "skip"
      [] OTHER -> "ask_again"

\* "details" leaves the prompt loop as "no" does
CodeChoiceDetailsEndsLoop(choice) ==
    CASE choice \in {"yes", "y"} -> "apply"
      [] choice \in {"no", "n", "details", "d"} -> "skip"
      [] choice \in {"skip_all_code", "s"} -> "skip_all"
      [] OTHER -> "ask_again"

\* updater.rs:213-227: what one answer to a source-code prompt decides
CodeChoice(choice) ==
    CASE choice \in {"yes", "y"} -> "apply"
      [] choice \in {"no", "n"} -> "skip"
      [] choice \in {"skip_all_code", "s"} -> "skip_all"
      [] OTHER -> "ask_again"

\* updater.rs:231-249: the file operation of an approved suggestion; a
\* failed operation is reported and the loop goes on
ApplySourceCode(fs, sugg) ==
    CASE sugg.action = "create" -> create_file(fs, sugg.target_file, sugg.content).files
      [] sugg.action = "replace" ->
            replace_file_content(fs, sugg.target_file, sugg.content).files
      [] sugg.action = "append_to_file" ->
            append_to_file(fs, sugg.target_file, sugg.content).files
      [] sugg.action = "add_import" ->
            IF sugg.import_statement # <<>>
            THEN append_to_file(fs, sugg.target_file,
                                sugg.import_statement[1] \o "\n").files
            ELSE fs
      [] OTHER -> fs

\* a prompt is issued for every item whatever the flag says
AsksAlways(auto) == TRUE

\* updater.rs:178: the dependency prompt is skipped under auto_approve_deps
AsksAboutDeps(auto) == ~auto

\* updater.rs:210: the source-code prompt is skipped under auto_approve_code
AsksAboutCode(auto) == ~auto

\* what a processing has done so far; answers are recorded as they were
\* typed, before the handler interprets them
NoHist(c, fs) ==
    [start_cargo |-> c, start_files |-> fs,
     deps_called |-> FALSE,  \* add_cargo_dependencies was called
     applied |-> {},         \* source-code suggestions whose file operation ran
     yes_deps |-> FALSE,     \* the dependency prompt was answered yes / y
     yes_code |-> {},        \* source-code suggestions answered yes / y
     skip_at |-> 0,          \* the suggestion answered skip_all_code / s
     skip_reads |-> 0,       \* reads when that answer had been read
     skip_files |-> fs,      \* files when that answer had been read
     prompts |-> <<>>]       \* what each first prompt of an item was about

NoResponse ==
    [json_ok |-> FALSE, has_suggestions |-> FALSE, suggestions |-> <<>>, text |-> <<>>]

\* the handler between two processings
Idle ==
    /\ pc = "idle"
    /\ llm_response = NoResponse
    /\ auto_approve_deps = FALSE
    /\ auto_approve_code = FALSE
    /\ cargo_deps_to_add = <<>>
    /\ source_code_suggestions_collected = <<>>
    /\ idx = 1
    /\ skip_remaining_code = FALSE
    /\ reads = 0
    /\ retries = 0
    /\ last_choice = ""
    /\ result = "none"
    /\ route = "none"
    /\ hist = NoHist(cargo, files)
    /\ runs = 0
    /\ first = [cargo |-> cargo, files |-> files]

\* updater.rs:148-172 and 263-267: parse; collect, or fall back to the code
\* blocks of the raw text (which asks nothing) and save the project
Begin(resp) ==
    LET parsed == parse_assist_task_response(resp)
    IN  /\ hist' = NoHist(cargo, files)
        /\ idx' = 1
        /\ skip_remaining_code' = FALSE
        /\ reads' = 0
        /\ retries' = 0
        /\ last_choice' = ""
        /\ cargo' = cargo
        /\ IF parsed.ok
           THEN /\ route' = "structured"
                /\ cargo_deps_to_add' = FlattenLines(parsed.suggestions)
                /\ source_code_suggestions_collected' =
                       CollectSourceCode(parsed.suggestions)
                /\ pc' = "deps"
                /\ result' = "none"
                /\ files' = files
           ELSE /\ route' = "fallback"
                /\ cargo_deps_to_add' = <<>>
                /\ source_code_suggestions_collected' = <<>>
                /\ files' = generate_code_files(files, tech_stack, resp.text)
                /\ pc' = "done"
                /\ result' = "ok"

\* process_llm_response(resp, CodeGeneration(task), deps_flag, code_flag),
\* as assist_task (false, false) and execute_task (its two flags) call it
ProcessLlmResponse(resp, deps_flag, code_flag) ==
    /\ pc = "idle"
    /\ llm_response' = resp
    /\ auto_approve_deps' = deps_flag
    /\ auto_approve_code' = code_flag
    /\ runs' = 1
    /\ Begin(resp)
    /\ UNCHANGED <<tech_stack, first, call, docVars, auxVars>>

\* read_testable_line failed (updater.rs:137, 143): the error is returned
ReadFails ==
    /\ pc' = "done"
    /\ result' = "err"
    /\ UNCHANGED <<cargo, files, hist, idx, skip_remaining_code, reads, retries,
                   last_choice>>

\* updater.rs:174-192: the one prompt for all collected dependency lines
HandleDependencies ==
    /\ pc = "deps"
    /\ IF cargo_deps_to_add = <<>>
       THEN /\ pc' = "code"
            /\ UNCHANGED <<cargo, hist, reads, last_choice, result>>
       ELSE IF ~AsksAboutDeps(auto_approve_deps)
       THEN /\ cargo' = AddCargoDependencies(cargo, cargo_deps_to_add).cargo
            /\ hist' = [hist EXCEPT !.deps_called = TRUE]
            /\ pc' = "code"
            /\ UNCHANGED <<reads, last_choice, result>>
       ELSE \E line \in InputLines \cup {InputError} :
              IF line = InputError
              THEN ReadFails
              ELSE LET user_choice == TrimLower(line)
                       confirmed_add_deps == ConfirmsDeps(user_choice)
                   IN  /\ reads' = reads + 1
                       /\ last_choice' = user_choice
                       /\ cargo' = IF confirmed_add_deps
                                   THEN AddCargoDependencies(cargo, cargo_deps_to_add).cargo
                                   ELSE cargo
                       /\ hist' = [hist EXCEPT
                                     !.deps_called = confirmed_add_deps,
                                     !.yes_deps = user_choice \in {"yes", "y"},
                                     !.prompts = Append(@, [kind |-> "deps", idx |-> 0])]
                       /\ pc' = "code"
                       /\ result' = "none"
    /\ UNCHANGED <<files, tech_stack, llm_response, auto_approve_deps, auto_approve_code,
                   cargo_deps_to_add, source_code_suggestions_collected, idx,
                   skip_remaining_code, retries, route, runs, first, call, docVars,
                   auxVars>>

\* updater.rs:197-251: one pass of the loop body, up to the next read or the
\* end of the iteration
HandleSourceCode ==
    /\ pc = "code"
    /\ idx <= Len(source_code_suggestions_collected)
    /\ LET code_sugg == source_code_suggestions_collected[idx]
       IN  IF skip_remaining_code
           THEN /\ idx' = idx + 1
                /\ UNCHANGED <<files, hist, pc, skip_remaining_code, reads, retries,
                               last_choice, result>>
           ELSE IF ~AsksAboutCode(auto_approve_code)
           THEN /\ files' = ApplySourceCode(files, code_sugg)
                /\ hist' = [hist EXCEPT !.applied = @ \cup {idx}]
                /\ idx' = idx + 1
                /\ UNCHANGED <<pc, skip_remaining_code, reads, retries, last_choice,
                               result>>
           ELSE \E line \in InputLines \cup {InputError} :
                  IF line = InputError
                  THEN ReadFails
                  ELSE LET user_choice_code == TrimLower(line)
                           decision == CodeChoice(user_choice_code)
                           typed_yes == user_choice_code \in {"yes", "y"}
                           typed_skip == user_choice_code \in {"skip_all_code", "s"}
                           asked_before == \E k \in 1..Len(hist.prompts) :
                                              /\ hist.prompts[k].kind = "code"
                                              /\ hist.prompts[k].idx = idx
                       IN  /\ decision = "ask_again" => retries < MaxRetries
                           /\ reads' = reads + 1
                           /\ last_choice' = user_choice_code
                           /\ retries' = IF decision = "ask_again" THEN retries + 1
                                         ELSE retries
                           /\ idx' = IF decision = "ask_again" THEN idx ELSE idx + 1
                           /\ skip_remaining_code' = (decision = "skip_all")
                           /\ files' = IF decision = "apply"
                                       THEN ApplySourceCode(files, code_sugg)
                                       ELSE files
                           /\ hist' = [hist EXCEPT
                                 !.applied = IF decision = "apply" THEN @ \cup {idx} ELSE @,
                                 !.yes_code = IF typed_yes THEN @ \cup {idx} ELSE @,
                                 !.skip_at = IF typed_skip THEN idx ELSE @,
                                 !.skip_reads = IF typed_skip THEN reads + 1 ELSE @,
                                 !.skip_files = IF typed_skip THEN files ELSE @,
                                 !.prompts = IF asked_before THEN @
                                             ELSE Append(@, [kind |-> "code", idx |-> idx])]
                           /\ UNCHANGED <<pc, result>>
    /\ UNCHANGED <<cargo, tech_stack, llm_response, auto_approve_deps, auto_approve_code,
                   cargo_deps_to_add, source_code_suggestions_collected, route, runs,
                   first, call, docVars, auxVars>>

\* updater.rs:252-269 and 54: the loop is over; advice is printed, the
\* project saved
Finish ==
    /\ pc = "code"
    /\ idx > Len(source_code_suggestions_collected)
    /\ pc' = "done"
    /\ result' = "ok"
    /\ UNCHANGED <<cargo, files, tech_stack, llm_response, auto_approve_deps,
                   auto_approve_code, cargo_deps_to_add,
                   source_code_suggestions_collected, idx, skip_remaining_code, reads,
                   retries, last_choice, route, hist, runs, first, call, docVars,
                   auxVars>>

-----------------------------------------------------------------------------
(* The responses, projects and directories of the model *)

DepA == CargoDependency(<<Line_a1>>)
DepB == CargoDependency(<<Line_b2, Line_a2>>)
CreateA == SourceCode("src/a.rs", "create", "fn a() {}", <<>>)
ReplaceA == SourceCode("src/a.rs", "replace", "fn b() {}", <<>>)
AppendA == SourceCode("src/a.rs", "append_to_file", "fn c() {}", <<>>)
ImportB == SourceCode("src/b.rs", "add_import", "", <<"use m;">>)
ReplaceFnB == SourceCode("src/b.rs", "replace_function", "fn d() {}", <<>>)
Advice == GeneralAdvice("Remember to test.")

\* the suggestions of Spec, where every prompt branches on the answer
SuggestionPool == {DepA, DepB, CreateA, AppendA, Advice, UnknownType}

\* the suggestions of SpecAuto, where nothing is asked
AllSuggestions == {DepA, DepB, CreateA, ReplaceA, AppendA, ImportB, ReplaceFnB,
                   Advice, UnknownType}

PiecePool ==
    { <<Fence("rust"), Plain("fn main() {}"), Fence("")>>,
      <<Fence(" Rust "), Plain("let x = 1;"), Plain("impl S {}"), Fence("")>>,
      <<Fence("json"), Plain("{}"), Fence("")>>,
      <<Fence("python"), Plain("class C:")>>,
      <<Fence("rust"), Plain(" "), Fence("")>>,
      <<Fence(" "), Plain("let x = 1;"), Fence("")>>,
      <<Plain("Here is the code:")>> }

RECURSIVE Concat(_)
Concat(pieces) == IF pieces = <<>> THEN <<>> ELSE Head(pieces) \o Concat(Tail(pieces))

Json(suggs) ==
    [json_ok |-> TRUE, has_suggestions |-> TRUE, suggestions |-> suggs, text |-> <<>>]
\* a JSON object without the "suggestions" field
MissingSuggestions ==
    [json_ok |-> TRUE, has_suggestions |-> FALSE, suggestions |-> <<>>, text |-> <<>>]
\* the suggestions in a text that is not valid JSON (a brace is missing)
Malformed(suggs) ==
    [json_ok |-> FALSE, has_suggestions |-> TRUE, suggestions |-> suggs, text |-> <<>>]
\* plain text with code blocks
PlainText(lines) ==
    [json_ok |-> FALSE, has_suggestions |-> FALSE, suggestions |-> <<>>, text |-> lines]

Responses ==
    {Json(s) : s \in SeqsUpTo(SuggestionPool, MaxSuggestions)}
    \cup {MissingSuggestions}
    \cup {Malformed(s) : s \in SeqsUpTo(SuggestionPool, 1)}
    \cup {PlainText(Concat(ps)) : ps \in SeqsUpTo(PiecePool, MaxPieces)}

NoFiles == [p \in {} |-> <<>>]

FilesPool == {NoFiles, [p \in {"src/a.rs", "src/main.rs"} |-> <<"fn old() {}">>]}

TechStackPool == {<<"rust">>, <<"docker", "python">>}

-----------------------------------------------------------------------------
(* README.md and CHANGELOG.md (doc_gen.rs, init.rs, templates.rs)          *)
(*                                                                         *)
(* A document is [exists, text]; text is a sequence of fragments. The      *)
(* fragments are chosen so that whatever the code searches for (a task ID, *)
(* "## Features", a newline) is a run of whole fragments wherever it       *)
(* occurs. A task ID, a title and a story are fragment sequences too.      *)

NoDocument == [exists |-> FALSE, text |-> <<>>]
Document(text) == [exists |-> TRUE, text |-> text]

\* str::contains
Contains(text, needle) ==
    \E i \in 1..(Len(text) - Len(needle) + 1) :
        SubSeq(text, i, i + Len(needle) - 1) = needle

\* position of the first "\n" at or after position from, 0 when none
NewlineFrom(text, from) ==
    IF \E i \in from..Len(text) : text[i] = "\n"
    THEN CHOOSE i \in from..Len(text) :
            text[i] = "\n" /\ \A j \in from..(i - 1) : text[j] # "\n"
    ELSE 0

\* String::insert_str after the first pos fragments
InsertAfter(text, pos, inserted) ==
    SubSeq(text, 1, pos) \o inserted \o SubSeq(text, pos + 1, Len(text))

ProjectName == "P"
Today == "2026-11-01"

\* doc_gen.rs:16; "- [done] " stands for the dash, the check-mark emoji and
\* the space the line starts with
FeatureLine(task) == <<"- [done] ">> \o task.title \o <<" (">> \o task.id \o <<")", "\n">>

\* doc_gen.rs:42
ChangelogEntry(task) ==
    <<"## ", Today, " - ">> \o task.title \o <<"\n", "- Completed: ">> \o task.story
        \o <<" (">> \o task.id \o <<")", "\n", "\n">>

\* doc_gen.rs:22-27: where the feature line goes. Without a newline after
\* "## Features" the insert position is one byte after the start of the
\* heading (unwrap_or(0) + 1), which splits the heading after its first "#"
InsertFeature(content, line) ==
    LET features_pos == FirstIndexOf(content, "## Features")
        newline == NewlineFrom(content, features_pos)
    IN  IF features_pos # 0
        THEN IF newline # 0
             THEN InsertAfter(content, newline, line)
             ELSE SubSeq(content, 1, features_pos - 1) \o <<"#">> \o line
                      \o <<"# Features">> \o SubSeq(content, features_pos + 1, Len(content))
        ELSE content \o <<"\n", "## Features", "\n">> \o line

\* update_readme without the duplicate check
UpdateReadmeAlways(rd, task) ==
    LET content == IF rd.exists THEN rd.text
                   ELSE <<"# ", ProjectName, "\n", "\n", "## Features", "\n", "\n">>
    IN  Document(InsertFeature(content, FeatureLine(task)))

\* doc_gen.rs:8-31 update_readme
update_readme(rd, task) ==
    LET content == IF rd.exists THEN rd.text
                   ELSE <<"# ", ProjectName, "\n", "\n", "## Features", "\n", "\n">>
    IN  IF Contains(content, task.id) THEN rd
        ELSE Document(InsertFeature(content, FeatureLine(task)))

\* doc_gen.rs:33-56 update_changelog
update_changelog(cl, task) ==
    LET content == IF cl.exists THEN cl.text ELSE <<"# Changelog", "\n", "\n">>
        first_newline == NewlineFrom(content, 1)
    IN  IF Contains(content, task.id) THEN cl
        ELSE IF first_newline # 0
             THEN Document(InsertAfter(content, first_newline, ChangelogEntry(task)))
             ELSE Document(content \o ChangelogEntry(task))

\* position of the first backlog item with this id, 0 when none
FindTask(items, id) ==
    IF \E i \in 1..Len(items) : items[i].id = id
    THEN CHOOSE i \in 1..Len(items) :
            items[i].id = id /\ \A j \in 1..(i - 1) : items[j].id # id
    ELSE 0

\* templates.rs:111-196 readme_template, the lines that matter: the heading,
\* a section heading, and the workflow lines that name US-001
ReadmeTemplate(project_name) ==
    <<"# ", project_name, "\n", "\n",
      "## Quick Start", "\n",
      "4. Start Task: env-coach start-task ", "US-", "001", "\n",
      "5. Get Help: env-coach assist-task ", "US-", "001", "\n",
      "6. Complete: env-coach complete-task ", "US-", "001", "\n",
      "Generated by env-coach v0.1.0", "\n">>

\* the tasks of the model; US-1000 is what stories.rs:15 and updater.rs:99
\* ("US-{:03}") give the thousandth story
Task(id, title, story) == [id |-> id, title |-> title, story |-> story, status |-> "Todo"]
US001 == Task(<<"US-", "001">>, <<"Login">>, <<"As a user I log in">>)
US002 == Task(<<"US-", "002">>, <<"Signup">>, <<"As a user I sign up">>)
US100 == Task(<<"US-", "100">>, <<"Export">>, <<"As a user I export, see ", "US-", "002">>)
US1000 == Task(<<"US-", "100", "0">>, <<"Import">>, <<"As a user I import">>)

BacklogOfModel == <<US001, US002, US100, US1000>>

\* a task ID no backlog item has
US999 == <<"US-", "999">>

ReadmePool ==
    {NoDocument,
     Document(ReadmeTemplate(ProjectName)),
     Document(<<"# ", ProjectName, "\n", "## Features", "\n", "Notes", "\n">>),
     Document(<<"# ", ProjectName, "\n", "#", "## Features">>)}

ChangelogPool ==
    {NoDocument,
     Document(<<"# Changelog", "\n", "\n">>),
     Document(<<"# Changelog">>)}

NoCommand == [n |-> 0, id |-> <<>>, found |-> FALSE,
              readme_before |-> NoDocument, changelog_before |-> NoDocument]

\* scripts/init.rs:95-104: init writes the template unless README.md exists
InitReadme ==
    /\ ~readme.exists
    /\ readme' = Document(ReadmeTemplate(ProjectName))
    /\ UNCHANGED <<cargo, files, tech_stack, pc, llm_response, auto_approve_deps,
                   auto_approve_code, cargo_deps_to_add,
                   source_code_suggestions_collected, idx, skip_remaining_code, reads,
                   retries, last_choice, result, route, hist, runs, first, call,
                   changelog, backlog, doc, auxVars>>

\* scripts/tasks.rs:138-170 complete_task with
\* doc_gen.rs:66-76 update_docs_for_task_completion; an unknown id is an
\* error and changes nothing. (Sprints are not modelled.)
CompleteTask(id) ==
    LET at == FindTask(backlog, id)
    IN  /\ doc' = [n |-> 1, id |-> id, found |-> at # 0,
                   readme_before |-> readme, changelog_before |-> changelog]
        /\ IF at = 0
           THEN UNCHANGED <<readme, changelog, backlog>>
           ELSE /\ backlog' = [backlog EXCEPT ![at].status = "Done"]
                /\ readme' = update_readme(readme, backlog[at])
                /\ changelog' = update_changelog(changelog, backlog[at])
        /\ UNCHANGED <<cargo, files, tech_stack, pc, llm_response, auto_approve_deps,
                       auto_approve_code, cargo_deps_to_add,
                       source_code_suggestions_collected, idx, skip_remaining_code,
                       reads, retries, last_choice, result, route, hist, runs, first,
                       call, auxVars>>

-----------------------------------------------------------------------------
(* Calls of add_cargo_dependencies on their own *)

NoCall == [count |-> 0, lines |-> <<>>, before |-> NoCargo, after_first |-> NoCargo]

\* add_cargo_dependencies(project_root, lines)
AddDependencies(lines) ==
    /\ call.count = 0
    /\ cargo' = AddCargoDependencies(cargo, lines).cargo
    /\ call' = [count |-> 1, lines |-> lines, before |-> cargo, after_first |-> cargo']
    /\ UNCHANGED <<files, tech_stack, pc, llm_response, auto_approve_deps,
                   auto_approve_code, cargo_deps_to_add,
                   source_code_suggestions_collected, idx, skip_remaining_code, reads,
                   retries, last_choice, result, route, hist, runs, first, docVars,
                   auxVars>>

\* the same call once more
AddDependenciesAgain ==
    /\ call.count = 1
    /\ cargo' = AddCargoDependencies(cargo, call.lines).cargo
    /\ call' = [call EXCEPT !.count = 2]
    /\ UNCHANGED <<files, tech_stack, pc, llm_response, auto_approve_deps,
                   auto_approve_code, cargo_deps_to_add,
                   source_code_suggestions_collected, idx, skip_remaining_code, reads,
                   retries, last_choice, result, route, hist, runs, first, docVars,
                   auxVars>>

\* the same response processed once more with the same flags, on the files
\* the first processing left
ProcessAgain ==
    /\ pc = "done"
    /\ result = "ok"
    /\ runs = 1
    /\ runs' = 2
    /\ first' = [cargo |-> cargo, files |-> files]
    /\ Begin(llm_response)
    /\ UNCHANGED <<tech_stack, llm_response, auto_approve_deps, auto_approve_code, call,
                   docVars, auxVars>>

-----------------------------------------------------------------------------
(* The LLM configuration, project.json and Project (config.rs)             *)
(*                                                                         *)
(* An Option is <<>> (None) or <<x>> (Some(x)). A JSON value is [t, v]:    *)
(* null, a string, a number, an array (a sequence) or an object (a record  *)
(* of the keys the text has).                                              *)

None == <<>>
Some(x) == <<x>>

\* config.rs:161-165
DEFAULT_LLM_MODEL == "deepseek-coder:6.7b"
DEFAULT_LLM_TIMEOUT_MS == 180000
DEFAULT_LLM_HOST == "localhost"
DEFAULT_LLM_PORT == 11434

PartialLlmConfig(model, timeout_ms, host, port) ==
    [model |-> model, timeout_ms |-> timeout_ms, host |-> host, port |-> port]

\* Option::or
OrElse(a, b) == IF a # None THEN a ELSE b
\* Option::unwrap_or
UnwrapOr(a, d) == IF a # None THEN a[1] ELSE d
\* Option::and_then(|g| g.field)
AndThen(cfg, field) == IF cfg = None THEN None ELSE cfg[1][field]

\* the global value alone decides every field
ResolveIgnoringProject(global_cfg, project_cfg) ==
    [model |-> UnwrapOr(AndThen(global_cfg, "model"), DEFAULT_LLM_MODEL),
     timeout_ms |-> UnwrapOr(AndThen(global_cfg, "timeout_ms"), DEFAULT_LLM_TIMEOUT_MS),
     host |-> UnwrapOr(AndThen(global_cfg, "host"), DEFAULT_LLM_HOST),
     port |-> UnwrapOr(AndThen(global_cfg, "port"), DEFAULT_LLM_PORT)]

\* config.rs:167-190 resolve_llm_config
resolve_llm_config(global_cfg, project_cfg) ==
    LET g_model == AndThen(global_cfg, "model")
        g_timeout == AndThen(global_cfg, "timeout_ms")
        g_host == AndThen(global_cfg, "host")
        g_port == AndThen(global_cfg, "port")
        p_model == AndThen(project_cfg, "model")
        p_timeout == AndThen(project_cfg, "timeout_ms")
        p_host == AndThen(project_cfg, "host")
        p_port == AndThen(project_cfg, "port")
    IN  [model |-> UnwrapOr(OrElse(p_model, g_model), DEFAULT_LLM_MODEL),
         timeout_ms |-> UnwrapOr(OrElse(p_timeout, g_timeout), DEFAULT_LLM_TIMEOUT_MS),
         host |-> UnwrapOr(OrElse(p_host, g_host), DEFAULT_LLM_HOST),
         port |-> UnwrapOr(OrElse(p_port, g_port), DEFAULT_LLM_PORT)]

\* the settings of the model: every field absent, empty / zero, or set
ModelPool == {None, Some(""), Some("m")}
TimeoutPool == {None, Some(1000)}
HostPool == {None, Some(""), Some("h")}
PortPool == {None, Some(0), Some(8080)}

PartialPool ==
    {PartialLlmConfig(m, t, h, q) :
        m \in ModelPool, t \in TimeoutPool, h \in HostPool, q \in PortPool}

OptPartialPool == {None} \cup {Some(c) : c \in PartialPool}

\* JSON values
JNull == [t |-> "null", v |-> ""]
JStr(x) == [t |-> "str", v |-> x]
JNum(n) == [t |-> "num", v |-> n]
JArr(a) == [t |-> "arr", v |-> a]
JObj(r) == [t |-> "obj", v |-> r]

\* the largest u16 (PartialLlmConfig.port)
U16Max == 65535

\* serde_json::to_string_pretty of the derived Serialize impls: an Option is
\* null or its value, a unit enum variant its name, a struct an object
SerOptStr(o) == IF o = None THEN JNull ELSE JStr(o[1])
SerOptNum(o) == IF o = None THEN JNull ELSE JNum(o[1])
SerStrings(a) == JArr([i \in 1..Len(a) |-> JStr(a[i])])

SerPartial(c) ==
    JObj([model |-> SerOptStr(c.model), timeout_ms |-> SerOptNum(c.timeout_ms),
          host |-> SerOptStr(c.host), port |-> SerOptNum(c.port)])

SerMeta(meta) ==
    JObj([name |-> JStr(meta.name), description |-> JStr(meta.description),
          created |-> JStr(meta.created), tech_stack |-> SerStrings(meta.tech_stack),
          tags |-> SerStrings(meta.tags),
          llm |-> IF meta.llm = None THEN JNull ELSE SerPartial(meta.llm[1])])

\* a BacklogItem; story, acceptance_criteria, created and dependencies are
\* written and read as title and tasks are and are left out
SerItem(item) ==
    JObj([id |-> JStr(item.id), item_type |-> JStr(item.item_type),
          title |-> JStr(item.title), priority |-> JStr(item.priority),
          effort |-> JNum(item.effort), status |-> JStr(item.status),
          sprint |-> SerOptStr(item.sprint)])

\* a Sprint; the dates, stories and velocities are left out likewise
SerSprint(sprint) ==
    JObj([id |-> JStr(sprint.id), goal |-> JStr(sprint.goal),
          status |-> JStr(sprint.status), total_points |-> JNum(sprint.total_points),
          completed_points |-> JNum(sprint.completed_points),
          tasks |-> SerStrings(sprint.tasks)])

\* Serialize for Project with meta.llm left out of the file
SerializeWithoutOverrides(project) ==
    JObj([meta |-> SerMeta([project.meta EXCEPT !.llm = None]),
          backlog |-> JArr([i \in 1..Len(project.backlog) |-> SerItem(project.backlog[i])]),
          sprints |-> JArr([i \in 1..Len(project.sprints) |-> SerSprint(project.sprints[i])]),
          current_sprint |-> SerOptStr(project.current_sprint)])

\* config.rs:10-18 Serialize for Project: resolved_llm_config is #[serde(skip)]
Serialize(project) ==
    JObj([meta |-> SerMeta(project.meta),
          backlog |-> JArr([i \in 1..Len(project.backlog) |-> SerItem(project.backlog[i])]),
          sprints |-> JArr([i \in 1..Len(project.sprints) |-> SerSprint(project.sprints[i])]),
          current_sprint |-> SerOptStr(project.current_sprint)])

\* the derived Deserialize impls: a required key must be there with a value
\* of its type, an Option key may be missing or null
HasStr(o, k) == k \in DOMAIN o /\ o[k].t = "str"
HasNum(o, k, max) == k \in DOMAIN o /\ o[k].t = "num" /\ o[k].v \in 0..max
HasOptStr(o, k) == k \in DOMAIN o => o[k].t \in {"null", "str"}
HasOptNum(o, k, max) ==
    k \in DOMAIN o => o[k].t = "null" \/ (o[k].t = "num" /\ o[k].v \in 0..max)
HasStrings(o, k) ==
    /\ k \in DOMAIN o /\ o[k].t = "arr"
    /\ \A i \in 1..Len(o[k].v) : o[k].v[i].t = "str"
HasEnum(o, k, variants) == HasStr(o, k) /\ o[k].v \in variants

GetOpt(o, k) == IF k \notin DOMAIN o \/ o[k].t = "null" THEN None ELSE Some(o[k].v)
GetStrings(o, k) == [i \in 1..Len(o[k].v) |-> o[k].v[i].v]

\* timeout_ms is a u64, effort and the points are u32: the numbers of the
\* model stay far below their largest
MaxNumber == 1000000

ParsesPartial(j) ==
    /\ j.t = "obj"
    /\ HasOptStr(j.v, "model") /\ HasOptNum(j.v, "timeout_ms", MaxNumber)
    /\ HasOptStr(j.v, "host") /\ HasOptNum(j.v, "port", U16Max)
GetPartial(j) ==
    PartialLlmConfig(GetOpt(j.v, "model"), GetOpt(j.v, "timeout_ms"),
                     GetOpt(j.v, "host"), GetOpt(j.v, "port"))

ParsesMeta(j) ==
    /\ j.t = "obj"
    /\ HasStr(j.v, "name") /\ HasStr(j.v, "description") /\ HasStr(j.v, "created")
    /\ HasStrings(j.v, "tech_stack") /\ HasStrings(j.v, "tags")
    /\ "llm" \in DOMAIN j.v => j.v.llm.t = "null" \/ ParsesPartial(j.v.llm)
GetMeta(j) ==
    [name |-> j.v.name.v, description |-> j.v.description.v, created |-> j.v.created.v,
     tech_stack |-> GetStrings(j.v, "tech_stack"), tags |-> GetStrings(j.v, "tags"),
     llm |-> IF "llm" \notin DOMAIN j.v \/ j.v.llm.t = "null" THEN None
             ELSE Some(GetPartial(j.v.llm))]

\* config.rs:119-151: the variants of the enums
ItemTypes == {"UserStory", "Bug", "Epic", "Task"}
Priorities == {"Critical", "High", "Medium", "Low"}
Statuses == {"Todo", "InProgress", "Review", "Done"}
SprintStatuses == {"Planning", "Active", "Review", "Completed", "Complete"}

ParsesItem(j) ==
    /\ j.t = "obj"
    /\ HasStr(j.v, "id") /\ HasEnum(j.v, "item_type", ItemTypes)
    /\ HasStr(j.v, "title") /\ HasEnum(j.v, "priority", Priorities)
    /\ HasNum(j.v, "effort", MaxNumber) /\ HasEnum(j.v, "status", Statuses)
    /\ HasOptStr(j.v, "sprint")
GetItem(j) ==
    [id |-> j.v.id.v, item_type |-> j.v.item_type.v, title |-> j.v.title.v,
     priority |-> j.v.priority.v, effort |-> j.v.effort.v, status |-> j.v.status.v,
     sprint |-> GetOpt(j.v, "sprint")]

ParsesSprint(j) ==
    /\ j.t = "obj"
    /\ HasStr(j.v, "id") /\ HasStr(j.v, "goal")
    /\ HasEnum(j.v, "status", SprintStatuses)
    /\ HasNum(j.v, "total_points", MaxNumber)
    /\ HasNum(j.v, "completed_points", MaxNumber)
    /\ HasStrings(j.v, "tasks")
GetSprint(j) ==
    [id |-> j.v.id.v, goal |-> j.v.goal.v, status |-> j.v.status.v,
     total_points |-> j.v.total_points.v, completed_points |-> j.v.completed_points.v,
     tasks |-> GetStrings(j.v, "tasks")]

\* config.rs:221-227 ProjectFileContent: all four keys are required but
\* current_sprint, an Option
ParsesProjectFile(j) ==
    /\ j.t = "obj"
    /\ "meta" \in DOMAIN j.v /\ ParsesMeta(j.v.meta)
    /\ "backlog" \in DOMAIN j.v /\ j.v.backlog.t = "arr"
    /\ \A i \in 1..Len(j.v.backlog.v) : ParsesItem(j.v.backlog.v[i])
    /\ "sprints" \in DOMAIN j.v /\ j.v.sprints.t = "arr"
    /\ \A i \in 1..Len(j.v.sprints.v) : ParsesSprint(j.v.sprints.v[i])
    /\ HasOptStr(j.v, "current_sprint")

\* the Project in memory
NoProject == [loaded |-> FALSE]
ProjectOf(meta, items, sprints, current_sprint, resolved) ==
    [loaded |-> TRUE, meta |-> meta, backlog |-> items, sprints |-> sprints,
     current_sprint |-> current_sprint, resolved_llm_config |-> resolved]

Meta(name, llm) ==
    [name |-> name, description |-> "Test Desc", created |-> "2024-01-01T00:00:00Z",
     tech_stack |-> <<"rust">>, tags |-> <<"systems", "env-coach">>, llm |-> llm]

\* config.rs:196-214 Project::new
NewProject(name, global_llm_config) ==
    ProjectOf(Meta(name, None), <<>>, <<>>, None,
              resolve_llm_config(global_llm_config, None))

\* validate that looks at the settings of project.json alone
ValidateOverridesOnly(project) ==
    /\ project.meta.name # ""
    /\ AndThen(project.meta.llm, "model") # Some("")
    /\ AndThen(project.meta.llm, "host") # Some("")
    /\ AndThen(project.meta.llm, "port") # Some(0)

\* config.rs:407-427 Project::validate: TRUE for Ok
validate(project) ==
    /\ project.meta.name # ""
    /\ project.resolved_llm_config.model # ""
    /\ project.resolved_llm_config.host # ""
    /\ project.resolved_llm_config.port # 0

\* the files: config.json is [valid, llm] (a missing file is valid with no
\* llm, config.rs:84-87); project.json is missing or holds a JSON value
GlobalFile(llm) == [valid |-> TRUE, llm |-> llm]
MalformedGlobal == [valid |-> FALSE, llm |-> None]
MissingFile == [exists |-> FALSE, json |-> JNull]
FileOf(json) == [exists |-> TRUE, json |-> json]

\* project.json files of the model
ItemA == [id |-> "US-001", item_type |-> "UserStory", title |-> "Login",
          priority |-> "High", effort |-> 3, status |-> "InProgress",
          sprint |-> Some("S-001")]
ItemB == [id |-> "US-002", item_type |-> "Bug", title |-> "", priority |-> "Low",
          effort |-> 0, status |-> "Todo", sprint |-> None]
SprintA == [id |-> "S-001", goal |-> "Ship", status |-> "Complete", total_points |-> 3,
            completed_points |-> 0, tasks |-> <<"US-001">>]

\* a file as save writes it
SavedFile(name, llm) ==
    FileOf(Serialize(ProjectOf(Meta(name, llm), <<ItemA, ItemB>>, <<SprintA>>,
                               Some("S-001"), resolve_llm_config(None, None))))

\* config.rs:634-643: a file written by hand, keys of llm left out
HandWrittenFile ==
    FileOf(JObj([meta |-> JObj([name |-> JStr("TestProject"),
                                description |-> JStr("Test Desc"),
                                created |-> JStr("2024-01-01T00:00:00Z"),
                                tech_stack |-> JArr(<<>>), tags |-> JArr(<<>>),
                                llm |-> JObj([model |-> JStr("project-load-model"),
                                              port |-> JNum(8888)])]),
                 backlog |-> JArr(<<>>), sprints |-> JArr(<<>>),
                 current_sprint |-> JNull]))

\* files that do not deserialize: a port that is no u16, no backlog key
BadPortFile ==
    FileOf(JObj([meta |-> JObj([name |-> JStr("P"), description |-> JStr(""),
                                created |-> JStr("2024-01-01T00:00:00Z"),
                                tech_stack |-> JArr(<<>>), tags |-> JArr(<<>>),
                                llm |-> JObj([port |-> JNum(U16Max + 1)])]),
                 backlog |-> JArr(<<>>), sprints |-> JArr(<<>>),
                 current_sprint |-> JNull]))
NoBacklogFile ==
    FileOf(JObj([meta |-> SerMeta(Meta("P", None)), sprints |-> JArr(<<>>)]))

ProjectFilePool ==
    {MissingFile, HandWrittenFile, BadPortFile, NoBacklogFile, SavedFile("", None)}
    \cup {SavedFile("P", llm) : llm \in OptPartialPool}

GlobalFilePool == {MalformedGlobal} \cup {GlobalFile(llm) : llm \in OptPartialPool}

\* what config.json is edited to between two commands
GlobalEdits ==
    {GlobalFile(None),
     GlobalFile(Some(PartialLlmConfig(Some("g"), None, Some(""), Some(1))))}

\* how often config.json is edited
MaxEdits == 1

NoOutcome == [op |-> "none", ok |-> TRUE]
NoConfig(global, disk) ==
    [global |-> global, disk |-> disk, project |-> NoProject,
     saved |-> None,        \* the Project of the save that wrote project.json
     edits |-> 0, out |-> NoOutcome]

\* init.rs:15-90: init with a name; nothing is written when project.json
\* exists, config.json is malformed or the validation fails
InitProject(name) ==
    /\ LET project == NewProject(name, config.global.llm)
       IN  IF ~config.global.valid
           THEN config' = [config EXCEPT !.out = [op |-> "init", ok |-> FALSE]]
           ELSE IF config.disk.exists
           THEN config' = [config EXCEPT !.out = [op |-> "init", ok |-> TRUE]]
           ELSE IF ~validate(project)
           THEN config' = [config EXCEPT !.out = [op |-> "init", ok |-> FALSE]]
           ELSE config' = [config EXCEPT !.project = project,
                                         !.disk = FileOf(Serialize(project)),
                                         !.saved = Some(project),
                                         !.out = [op |-> "init", ok |-> TRUE]]
    /\ UNCHANGED <<cargo, files, tech_stack, pc, llm_response, auto_approve_deps,
                   auto_approve_code, cargo_deps_to_add,
                   source_code_suggestions_collected, idx, skip_remaining_code, reads,
                   retries, last_choice, result, route, hist, runs, first, call,
                   docVars, fileop, req, planning>>

\* config.rs:319-346 Project::load
Load ==
    /\ IF /\ config.global.valid
          /\ config.disk.exists
          /\ ParsesProjectFile(config.disk.json)
       THEN LET j == config.disk.json.v
                meta == GetMeta(j.meta)
            IN  config' = [config EXCEPT
                    !.project = ProjectOf(meta,
                        [i \in 1..Len(j.backlog.v) |-> GetItem(j.backlog.v[i])],
                        [i \in 1..Len(j.sprints.v) |-> GetSprint(j.sprints.v[i])],
                        GetOpt(j, "current_sprint"),
                        resolve_llm_config(config.global.llm, meta.llm)),
                    !.out = [op |-> "load", ok |-> TRUE]]
       ELSE config' = [config EXCEPT !.out = [op |-> "load", ok |-> FALSE]]
    /\ UNCHANGED <<cargo, files, tech_stack, pc, llm_response, auto_approve_deps,
                   auto_approve_code, cargo_deps_to_add,
                   source_code_suggestions_collected, idx, skip_remaining_code, reads,
                   retries, last_choice, result, route, hist, runs, first, call,
                   docVars, fileop, req, planning>>

\* config.rs:348-360 Project::save
Save ==
    /\ config.project.loaded
    /\ config' = [config EXCEPT !.disk = FileOf(Serialize(config.project)),
                                !.saved = Some(config.project),
                                !.out = [op |-> "save", ok |-> TRUE]]
    /\ UNCHANGED <<cargo, files, tech_stack, pc, llm_response, auto_approve_deps,
                   auto_approve_code, cargo_deps_to_add,
                   source_code_suggestions_collected, idx, skip_remaining_code, reads,
                   retries, last_choice, result, route, hist, runs, first, call,
                   docVars, fileop, req, planning>>

\* llm_cycle.rs:32 project.validate() on the loaded Project
Validate ==
    /\ config.project.loaded
    /\ config' = [config EXCEPT !.out = [op |-> "validate",
                                         ok |-> validate(config.project)]]
    /\ UNCHANGED <<cargo, files, tech_stack, pc, llm_response, auto_approve_deps,
                   auto_approve_code, cargo_deps_to_add,
                   source_code_suggestions_collected, idx, skip_remaining_code, reads,
                   retries, last_choice, result, route, hist, runs, first, call,
                   docVars, fileop, req, planning>>

\* the user edits ~/.config/env-coach/config.json
EditGlobal(global) ==
    /\ config.edits < MaxEdits
    /\ config' = [config EXCEPT !.global = global, !.edits = @ + 1,
                                !.out = [op |-> "edit", ok |-> TRUE]]
    /\ UNCHANGED <<cargo, files, tech_stack, pc, llm_response, auto_approve_deps,
                   auto_approve_code, cargo_deps_to_add,
                   source_code_suggestions_collected, idx, skip_remaining_code, reads,
                   retries, last_choice, result, route, hist, runs, first, call,
                   docVars, fileop, req, planning>>

-----------------------------------------------------------------------------
(* The file operations called on their own (code_gen.rs:235-289)           *)
(*                                                                         *)
(* fileop.dirs is the set of directories that exist; fileop holds the last *)
(* call, its result and the files and directories before it.               *)

\* the paths of the model and Path::parent with all its ancestors, which is
\* what fs::create_dir_all creates
PathPool == {"src/a.rs", "src/new/deep/b.rs", "c.rs"}
Parents(path) ==
    CASE path = "src/a.rs" -> {"src"}
      [] path = "src/main.rs" -> {"src"}
      [] path = "src/new/deep/b.rs" -> {"src", "src/new", "src/new/deep"}
      [] OTHER -> {}

ContentPool == {"", "fn a() {}", "fn old() {}"}

\* how many file operations are called in a row
MaxFileOps == 2

NoFileOp ==
    [n |-> 0, op |-> "none", path |-> "", content |-> "", ok |-> TRUE,
     before |-> NoFiles, dirs_before |-> {}, dirs |-> {}]

FileOpFrame ==
    UNCHANGED <<cargo, tech_stack, pc, llm_response, auto_approve_deps,
                auto_approve_code, cargo_deps_to_add,
                source_code_suggestions_collected, idx, skip_remaining_code, reads,
                retries, last_choice, result, route, hist, runs, first, call,
                docVars, config, req, planning>>

\* create_file(path, content); code_gen.rs:239-242 creates the parent
\* directories once the path is known not to exist
CallCreateFile(path, content) ==
    /\ fileop.n < MaxFileOps
    /\ LET r == create_file(files, path, content)
       IN  /\ files' = r.files
           /\ fileop' = [n |-> fileop.n + 1, op |-> "create", path |-> path,
                         content |-> content, ok |-> r.ok, before |-> files,
                         dirs_before |-> fileop.dirs,
                         dirs |-> IF Exists(files, path) THEN fileop.dirs
                                  ELSE fileop.dirs \cup Parents(path)]
    /\ FileOpFrame

\* replace_file_content(path, new_content); the parent of a file that
\* exists exists (code_gen.rs:256-261)
CallReplaceFileContent(path, new_content) ==
    /\ fileop.n < MaxFileOps
    /\ LET r == replace_file_content(files, path, new_content)
       IN  /\ files' = r.files
           /\ fileop' = [n |-> fileop.n + 1, op |-> "replace", path |-> path,
                         content |-> new_content, ok |-> r.ok, before |-> files,
                         dirs_before |-> fileop.dirs, dirs |-> fileop.dirs]
    /\ FileOpFrame

\* append_to_file(path, content_to_append); code_gen.rs:271-274 creates the
\* parent directories first
CallAppendToFile(path, content_to_append) ==
    /\ fileop.n < MaxFileOps
    /\ LET r == append_to_file(files, path, content_to_append)
       IN  /\ files' = r.files
           /\ fileop' = [n |-> fileop.n + 1, op |-> "append", path |-> path,
                         content |-> content_to_append, ok |-> r.ok, before |-> files,
                         dirs_before |-> fileop.dirs,
                         dirs |-> fileop.dirs \cup Parents(path)]
    /\ FileOpFrame

-----------------------------------------------------------------------------
(* Requirement analysis (updater.rs:87-118, llm_parsers.rs:8-48,          *)
(* text_utils.rs)                                                          *)
(*                                                                         *)
(* A response is its lines, each a sequence of pieces of text, and the     *)
(* JSON value it is when it is JSON at all. An item ID is the pair of its  *)
(* prefix and the rest, so that starts_with("US-") can be computed.        *)

\* how many stories a structured response holds, how many lines a text
\* response holds, how many responses are processed in a row
MaxStories == 2
MaxReqLines == 2
MaxResponses == 1

\* str::to_lowercase on the pieces of the model
to_lowercase(piece) ==
    CASE piece = "As a User" -> "as a user"
      [] piece = "User Story" -> "user story"
      [] piece = "US-" -> "us-"
      [] piece = "Some text." -> "some text."
      [] piece = "Login" -> "login"
      [] OTHER -> piece

\* str::contains for a needle that is one piece
contains(line, needle) == \E i \in 1..Len(line) : line[i] = needle
contains_lowercase(line, needle) ==
    \E i \in 1..Len(line) : to_lowercase(line[i]) = needle

\* the piece that stands for three backticks
CodeFence == "[fence]"

\* str::starts_with for a prefix that is one piece
starts_with(line, prefix) == line # <<>> /\ line[1] = prefix

\* format!("US-{:03}", n): at least three digits, padded with zeros
StoryId(n) ==
    <<"US-", IF n < 10 THEN "00" \o ToString(n)
             ELSE IF n < 100 THEN "0" \o ToString(n)
             ELSE ToString(n)>>

\* initial_story_count that counts every item of the backlog
CountAllItems(items) == Len(items)

\* backlog.iter().filter(|item| item.id.starts_with("US-")).count()
CountUserStories(items) == Cardinality({i \in 1..Len(items) : items[i].id[1] = "US-"})

\* serde_json::from_str::<LlmUserStoryResponse>: a missing or mistyped field
\* is an error, an unknown field is ignored
ParsesLlmUserStory(j) ==
    /\ j.t = "obj"
    /\ HasStr(j.v, "title")
    /\ HasStr(j.v, "story")
    /\ HasStr(j.v, "priority")
    /\ HasNum(j.v, "effort", MaxNumber)
    /\ HasStrings(j.v, "acceptance_criteria")

ParsesLlmUserStoryResponse(response) ==
    /\ response.json # None
    /\ LET j == response.json[1]
       IN  /\ j.t = "obj"
           /\ "user_stories" \in DOMAIN j.v
           /\ j.v["user_stories"].t = "arr"
           /\ \A i \in 1..Len(j.v["user_stories"].v) :
                 ParsesLlmUserStory(j.v["user_stories"].v[i])

GetLlmUserStory(j) ==
    [title |-> j.v["title"].v, story |-> j.v["story"].v,
     priority |-> j.v["priority"].v, effort |-> j.v["effort"].v,
     acceptance_criteria |-> GetStrings(j.v, "acceptance_criteria")]

GetLlmUserStoryResponse(response) ==
    LET a == response.json[1].v["user_stories"].v
    IN  [user_stories |-> [i \in 1..Len(a) |-> GetLlmUserStory(a[i])]]

\* convert_llm_story_to_backlog_item with an unknown priority taken as Low
ConvertUnknownAsLow(llm_story, id) ==
    [ok |-> TRUE,
     item |-> [id |-> id, item_type |-> "UserStory", title |-> llm_story.title,
               story |-> llm_story.story,
               acceptance_criteria |-> llm_story.acceptance_criteria,
               priority |-> IF llm_story.priority \in {"Critical", "High", "Medium"}
                            THEN llm_story.priority ELSE "Low",
               effort |-> llm_story.effort, status |-> "Todo", sprint |-> None,
               dependencies |-> <<>>]]

\* llm_parsers.rs:23-48; the creation time is left out
convert_llm_story_to_backlog_item(llm_story, id) ==
    LET priority ==
            CASE llm_story.priority = "Critical" -> "Critical"
              [] llm_story.priority = "High" -> "High"
              [] llm_story.priority = "Medium" -> "Medium"
              [] llm_story.priority = "Low" -> "Low"
              [] OTHER -> "Medium"
    IN  [ok |-> TRUE,
         item |-> [id |-> id, item_type |-> "UserStory", title |-> llm_story.title,
                   story |-> llm_story.story,
                   acceptance_criteria |-> llm_story.acceptance_criteria,
                   priority |-> priority, effort |-> llm_story.effort,
                   status |-> "Todo", sprint |-> None, dependencies |-> <<>>]]

\* text_utils.rs:6-18: the nearest earlier line that can be a title; every
\* line of the model is shorter than 100 characters
\* (current_index is 1-based here, so the generated title names it as it is)
RECURSIVE TitleBefore(_, _, _)
TitleBefore(lines, i, current_index) ==
    IF i = 0
    THEN <<"Generated Title for Story near line ", ToString(current_index)>>
    ELSE LET line == Trim(lines[i])
         IN  IF /\ line # <<>>
                /\ ~contains_lowercase(line, "as a user")
                /\ ~starts_with(line, "##")
                /\ ~starts_with(line, CodeFence)
             THEN line
             ELSE TitleBefore(lines, i - 1, current_index)

extract_title_from_context(lines, current_index) ==
    TitleBefore(lines, current_index - 1, current_index)

\* the test of a line that matches with every letter case taken as equal
IsStoryLineAnyCase(line) ==
    \/ contains_lowercase(line, "as a user")
    \/ contains_lowercase(line, "user story")
    \/ contains_lowercase(line, "us-")

\* text_utils.rs:25-27
IsStoryLine(line) ==
    \/ contains_lowercase(line, "as a user")
    \/ contains_lowercase(line, "user story")
    \/ contains(line, "US-")

\* text_utils.rs:21-68: [items, stories_found] after the lines from i on
RECURSIVE ExtractFrom_(_, _, _, _)
ExtractFrom_(items, lines, i, stories_found) ==
    IF i > Len(lines) THEN items
    ELSE IF IsStoryLine(lines[i])
    THEN LET story_id_num == CountUserStories(items) + 1 + stories_found
             backlog_item ==
                 [id |-> StoryId(story_id_num), item_type |-> "UserStory",
                  title |-> extract_title_from_context(lines, i), story |-> Trim(lines[i]),
                  acceptance_criteria |->
                      <<"Define specific acceptance criteria", "Implement the feature",
                        "Write tests and documentation">>,
                  priority |-> "Medium", effort |-> 3, status |-> "Todo",
                  sprint |-> None, dependencies |-> <<>>]
         IN  ExtractFrom_(Append(items, backlog_item), lines, i + 1, stories_found + 1)
    ELSE ExtractFrom_(items, lines, i + 1, stories_found)

extract_stories_from_text(items, text) == ExtractFrom_(items, text, 1, 0)

\* updater.rs:95-107: the loop over parsed_response.user_stories
RECURSIVE AddStories(_, _, _, _)
AddStories(items, user_stories, initial_story_count, added_count) ==
    IF user_stories = <<>> THEN items
    ELSE LET story_id_num == initial_story_count + 1 + added_count
             converted == convert_llm_story_to_backlog_item(Head(user_stories),
                                                            StoryId(story_id_num))
         IN  IF converted.ok
             THEN AddStories(Append(items, converted.item), Tail(user_stories),
                             initial_story_count, added_count + 1)
             ELSE AddStories(items, Tail(user_stories), initial_story_count, added_count)

\* updater.rs:87-118: [route, backlog]
update_project_from_requirement_analysis(items, response) ==
    IF ParsesLlmUserStoryResponse(response)
    THEN LET parsed_response == GetLlmUserStoryResponse(response)
         IN  IF parsed_response.user_stories = <<>>
             THEN [route |-> "structured", backlog |-> items]
             ELSE [route |-> "structured",
                   backlog |-> AddStories(items, parsed_response.user_stories,
                                          CountUserStories(items), 0)]
    ELSE [route |-> "fallback",
          backlog |-> extract_stories_from_text(items, response.lines)]

NoReq ==
    [n |-> 0, backlog |-> <<>>, before |-> <<>>, response |-> [json |-> None, lines |-> <<>>],
     route |-> "none", ok |-> TRUE, disk |-> None]

\* process_llm_response(llm_response, UpdateContext::RequirementAnalysis, ..)
\* (updater.rs:26-56): the update and then project.save()
ProcessRequirementAnalysis(response) ==
    /\ req.n < MaxResponses
    /\ LET r == update_project_from_requirement_analysis(req.backlog, response)
       IN  req' = [n |-> req.n + 1, backlog |-> r.backlog, before |-> req.backlog,
                   response |-> response, route |-> r.route, ok |-> TRUE,
                   disk |-> Some(r.backlog)]
    /\ UNCHANGED <<cargo, files, tech_stack, pc, llm_response, auto_approve_deps,
                   auto_approve_code, cargo_deps_to_add,
                   source_code_suggestions_collected, idx, skip_remaining_code, reads,
                   retries, last_choice, result, route, hist, runs, first, call,
                   docVars, config, fileop, planning>>


-----------------------------------------------------------------------------
(* plan-sprint (scripts/sprint.rs:36-254)                                  *)
(*                                                                         *)
(* planning holds the backlog and the sprints of project.json, and of the  *)
(* last run of plan: the backlog before it, whether it created a sprint    *)
(* and from which selection. An item is [id, effort, status, sprint].      *)

\* longest suggested_story_ids of a response, most parts of a manual
\* selection, most runs of plan in a row
MaxSuggested == 2
MaxParts == 2
MaxPlans == 2

PlanItem(id, effort, status, sprint) ==
    [id |-> id, effort |-> effort, status |-> status, sprint |-> sprint]

\* the IDs of the model in the order of String::cmp
IdOrder == <<"US-001", "US-002", "US-003", "US-004", "US-999">>

\* str::trim and str::to_lowercase on the answers of the model
TrimLowerChoice(user_choice) ==
    CASE user_choice = " Y" -> "y"
      [] user_choice = "Yes" -> "yes"
      [] OTHER -> user_choice

\* str::trim on the parts of a manual selection
TrimPart(part) ==
    CASE part = " US-001" -> "US-001"
      [] part = " 3 " -> "3"
      [] OTHER -> part

\* str::parse::<usize> on the trimmed parts of the model
ParseUsize(part) ==
    CASE part = "0" -> Some(0)
      [] part = "1" -> Some(1)
      [] part = "3" -> Some(3)
      [] part = "9" -> Some(9)
      [] OTHER -> None

\* serde_json::from_str::<LlmSprintPlanResponse> (sprint.rs:108-116): the
\* suggested IDs, none when the response does not parse
SuggestedStoryIds(response) ==
    IF /\ response.json # None
       /\ response.json[1].t = "obj"
       /\ HasStrings(response.json[1].v, "suggested_story_ids")
       /\ ("reasoning" \in DOMAIN response.json[1].v
              => response.json[1].v["reasoning"].t = "str")
    THEN GetStrings(response.json[1].v, "suggested_story_ids")
    ELSE <<>>

\* project.backlog.iter().filter(|item| matches!(item.status, Status::Todo))
TodoItems(items) == SelectSeq(items, LAMBDA item : item.status = "Todo")

IsTodoId(items, id) ==
    \E i \in 1..Len(items) : items[i].id = id /\ items[i].status = "Todo"

\* iter().find(|i| &i.id == id): the index of the first item, 0 when none
FindIndex(items, id) ==
    IF \E i \in 1..Len(items) : items[i].id = id
    THEN CHOOSE i \in 1..Len(items) :
            items[i].id = id /\ \A j \in 1..(i - 1) : items[j].id # id
    ELSE 0

\* sprint.rs:143-146: the suggestions that are Todo items, as suggested
AcceptSuggestions(items, suggested_story_ids) ==
    SelectSeq(suggested_story_ids, LAMBDA id : IsTodoId(items, id))

\* sprint.rs:177-198: the IDs the parts of a manual selection name
RECURSIVE SelectManually(_, _)
SelectManually(todo_backlog_items, parts) ==
    IF parts = <<>> THEN <<>>
    ELSE LET part == TrimPart(Head(parts))
             rest == SelectManually(todo_backlog_items, Tail(parts))
             num_idx == ParseUsize(part)
         IN  IF part = "" THEN rest
             ELSE IF num_idx # None
             THEN IF num_idx[1] > 0 /\ num_idx[1] <= Len(todo_backlog_items)
                  THEN <<todo_backlog_items[num_idx[1]].id>> \o rest
                  ELSE rest
             ELSE IF \E i \in 1..Len(todo_backlog_items) : todo_backlog_items[i].id = part
             THEN <<part>> \o rest
             ELSE rest

\* sprint.rs:199-200: sort() and dedup()
SortDedup(ids) == SelectSeq(IdOrder, LAMBDA id : id \in Range(ids))

\* sprint.rs:209-215: total_sprint_points
RECURSIVE TotalSprintPoints(_, _)
TotalSprintPoints(items, confirmed_story_ids) ==
    IF confirmed_story_ids = <<>> THEN 0
    ELSE LET i == FindIndex(items, Head(confirmed_story_ids))
         IN  (IF i = 0 THEN 0 ELSE items[i].effort)
             + TotalSprintPoints(items, Tail(confirmed_story_ids))

\* format!("S-{:03}", sprint_id_num)
SprintId(n) ==
    "S-" \o (IF n < 10 THEN "00" \o ToString(n)
             ELSE IF n < 100 THEN "0" \o ToString(n)
             ELSE ToString(n))

\* sprint.rs:224-236; the dates and velocities are left out
NewSprint(sprint_id, goal, total_sprint_points, confirmed_story_ids) ==
    [id |-> sprint_id, goal |-> goal, status |-> "Planning",
     total_points |-> total_sprint_points, completed_points |-> 0,
     tasks |-> confirmed_story_ids, stories |-> confirmed_story_ids]

\* sprint.rs:241-245: the first item of each ID gets the sprint
AssignSprint(items, confirmed_story_ids, sprint_id) ==
    [i \in 1..Len(items) |->
        IF items[i].id \in Range(confirmed_story_ids) /\ FindIndex(items, items[i].id) = i
        THEN [items[i] EXCEPT !.sprint = Some(sprint_id)]
        ELSE items[i]]

NoPlanning ==
    [n |-> 0, backlog |-> <<>>, sprints |-> <<>>, before |-> <<>>,
     created |-> FALSE, via |-> "none"]

\* plan(goal, days) with the response of the LLM, the answer to the
\* suggestions (read only when there are suggestions) and the manual
\* selection (read only when nothing is confirmed); project.json is
\* written only when a sprint is created
plan(goal, response, user_choice, manual_selection) ==
    /\ planning.n < MaxPlans
    /\ LET items == planning.backlog
           todo_backlog_items == TodoItems(items)
           suggested_story_ids == SuggestedStoryIds(response)
           accepted ==
               IF /\ suggested_story_ids # <<>>
                  /\ TrimLowerChoice(user_choice) \in {"yes", "y"}
               THEN AcceptSuggestions(items, suggested_story_ids)
               ELSE <<>>
           confirmed_story_ids ==
               IF accepted # <<>> THEN accepted
               ELSE SortDedup(SelectManually(todo_backlog_items, manual_selection))
           sprint_id == SprintId(Len(planning.sprints) + 1)
       IN  IF todo_backlog_items = <<>> \/ response.failed \/ confirmed_story_ids = <<>>
           THEN planning' = [planning EXCEPT !.n = @ + 1, !.before = items,
                                             !.created = FALSE, !.via = "none"]
           ELSE planning' =
                   [n |-> planning.n + 1,
                    backlog |-> AssignSprint(items, confirmed_story_ids, sprint_id),
                    sprints |-> Append(planning.sprints,
                                   NewSprint(sprint_id, goal,
                                             TotalSprintPoints(items, confirmed_story_ids),
                                             confirmed_story_ids)),
                    before |-> items, created |-> TRUE,
                    via |-> IF accepted # <<>> THEN "llm" ELSE "manual"]
    /\ UNCHANGED <<cargo, files, tech_stack, pc, llm_response, auto_approve_deps,
                   auto_approve_code, cargo_deps_to_add,
                   source_code_suggestions_collected, idx, skip_remaining_code, reads,
                   retries, last_choice, result, route, hist, runs, first, call,
                   docVars, config, fileop, req>>

NoAux ==
    /\ config = NoConfig(GlobalFile(None), MissingFile)
    /\ fileop = NoFileOp
    /\ req = NoReq
    /\ planning = NoPlanning

-----------------------------------------------------------------------------
(* Specifications *)

\* what a specification does not use stays as it starts
NoDocs ==
    /\ readme = NoDocument
    /\ changelog = NoDocument
    /\ backlog = <<>>
    /\ doc = NoCommand

\* Spec: one assist-task / execute-task processing of a response
Init ==
    /\ cargo \in {NoCargo, CargoTable(<<Dep_a0>>)}
    /\ files \in FilesPool
    /\ tech_stack \in TechStackPool
    /\ Idle
    /\ call = NoCall
    /\ NoDocs
    /\ NoAux

Next ==
    \/ /\ pc = "idle"
       /\ \E resp \in Responses, deps_flag \in BOOLEAN, code_flag \in BOOLEAN :
             ProcessLlmResponse(resp, deps_flag, code_flag)
    \/ HandleDependencies
    \/ HandleSourceCode
    \/ Finish

Spec == Init /\ [][Next]_vars

\* SpecAuto: execute-task with both auto-approve flags, the response
\* processed twice
AutoResponses ==
    {Json(s) : s \in SeqsUpTo(AllSuggestions, MaxSuggestions)}
    \cup {MissingSuggestions, PlainText(<<Fence("rust"), Plain("fn main() {}")>>)}

NextAuto ==
    \/ /\ pc = "idle"
       /\ \E resp \in AutoResponses : ProcessLlmResponse(resp, TRUE, TRUE)
    \/ HandleDependencies
    \/ HandleSourceCode
    \/ Finish
    \/ ProcessAgain

SpecAuto == Init /\ [][NextAuto]_vars

\* SpecCargo: add_cargo_dependencies called twice with the same lines
InitCargo ==
    /\ cargo \in CargoPool
    /\ files = NoFiles
    /\ tech_stack = <<"rust">>
    /\ Idle
    /\ call = NoCall
    /\ NoDocs
    /\ NoAux

NextCargo ==
    \/ /\ call.count = 0
       /\ \E lines \in SeqsUpTo(LinePool, MaxLines) : AddDependencies(lines)
    \/ AddDependenciesAgain

SpecCargo == InitCargo /\ [][NextCargo]_vars

\* SpecDocs: init and complete-task commands in any order
InitDocs ==
    /\ cargo = NoCargo
    /\ files = NoFiles
    /\ tech_stack = <<"rust">>
    /\ Idle
    /\ call = NoCall
    /\ readme \in ReadmePool
    /\ changelog \in ChangelogPool
    /\ backlog = BacklogOfModel
    /\ doc = NoCommand
    /\ NoAux

NextDocs ==
    \/ InitReadme
    \/ \E i \in 1..Len(backlog) : CompleteTask(backlog[i].id)
    \/ CompleteTask(US999)

SpecDocs == InitDocs /\ [][NextDocs]_vars

-----------------------------------------------------------------------------
(* Claims about the processing of a response (Spec, SpecAuto) *)

\* paths created or changed since the processing began
ChangedPaths ==
    {p \in DOMAIN files : p \notin DOMAIN hist.start_files \/ files[p] # hist.start_files[p]}

\* the approvals given so far: a flag, or a prompt answered yes / y
DepsApproved == auto_approve_deps \/ hist.yes_deps
CodeApproved(p) ==
    \E i \in 1..Len(source_code_suggestions_collected) :
        /\ source_code_suggestions_collected[i].target_file = p
        /\ auto_approve_code \/ i \in hist.yes_code

OnlyApprovedChanges ==
    /\ cargo # hist.start_cargo => DepsApproved
    /\ \A p \in ChangedPaths : CodeApproved(p)

\* C1 as stated: during the processing of a response nothing is written to a
\* source file or to Cargo.toml without an approval (a flag or a yes / y
\* answer), on the structured route and on the code-block fallback alike.
C1_ApprovedOnEveryRoute == route # "none" => OnlyApprovedChanges

\* C1 as amended: on the structured route nothing is written to a source file
\* or to Cargo.toml without an approval; the code-block fallback asks nothing
\* and approves nothing, leaves Cargo.toml and every existing file as they
\* were, and only creates files that did not exist.
C1_ApprovedOnStructuredRoute ==
    /\ route = "structured" => OnlyApprovedChanges
    /\ route = "fallback" =>
          /\ reads = 0
          /\ cargo = hist.start_cargo
          /\ \A p \in DOMAIN hist.start_files : files[p] = hist.start_files[p]

C1_Witness ==
    /\ pc = "done"
    /\ route = "structured"
    /\ ~auto_approve_deps /\ ~auto_approve_code
    /\ cargo # hist.start_cargo
    /\ ChangedPaths # {}

\* the prompts the response calls for, in response order
PromptKind(s) == IF s.type = "cargo_dependency" THEN "deps" ELSE "code"
RECURSIVE ExpectedPrompts(_)
ExpectedPrompts(suggs) ==
    IF suggs = <<>> THEN <<>>
    ELSE (IF Head(suggs).type \in {"cargo_dependency", "source_code"}
          THEN <<PromptKind(Head(suggs))>> ELSE <<>>) \o ExpectedPrompts(Tail(suggs))

\* C2: in interactive mode a processing that ran to its end without
\* skip_all_code has prompted once for every cargo_dependency and source_code
\* suggestion, in the order of the response, so that every dependency
\* suggestion has an answer of its own.
C2_OnePromptPerSuggestionInOrder ==
    (/\ pc = "done" /\ result = "ok" /\ route = "structured"
     /\ ~auto_approve_deps /\ ~auto_approve_code
     /\ hist.skip_at = 0)
    => LET expected == ExpectedPrompts(llm_response.suggestions)
       IN  /\ Len(hist.prompts) = Len(expected)
           /\ \A k \in 1..Len(expected) : hist.prompts[k].kind = expected[k]

\* C3: once a source-code prompt is answered skip_all_code / s, that
\* suggestion and all later ones are not applied, no file changes and no
\* further input is read for the rest of the processing.
C3_SkipAllStopsCodeChanges ==
    hist.skip_at > 0 =>
        /\ reads = hist.skip_reads
        /\ files = hist.skip_files
        /\ \A i \in hist.applied : i < hist.skip_at

C3_Witness ==
    /\ pc = "done"
    /\ hist.skip_at > 0
    /\ hist.skip_at < Len(source_code_suggestions_collected)

DecidingChoices == {"yes", "y", "no", "n", "skip_all_code", "s"}

\* C4: a source-code prompt answered details / d or anything unrecognised
\* decides nothing (same suggestion, nothing applied, nothing skipped, the
\* prompt comes again); the loop of a suggestion is left only by yes, no or
\* skip, applying exactly on yes, or by a failed read, which ends the
\* processing with an error.
C4_DetailsAsksAgain ==
    [][/\ (pc = "code" /\ reads' = reads + 1 /\ last_choice' \notin DecidingChoices)
          => /\ pc' = "code" /\ idx' = idx
             /\ files' = files /\ cargo' = cargo
             /\ hist'.applied = hist.applied
             /\ skip_remaining_code' = skip_remaining_code
       /\ (pc = "code" /\ idx' # idx /\ ~auto_approve_code /\ ~skip_remaining_code)
          => /\ reads' = reads + 1
             /\ last_choice' \in DecidingChoices
             /\ idx \in hist'.applied <=> last_choice' \in {"yes", "y"}
       /\ (pc = "code" /\ pc' = "done" /\ idx <= Len(source_code_suggestions_collected))
          => result' = "err"
      ]_vars

C4_Witness ==
    /\ pc = "done"
    /\ retries > 0
    /\ Len(source_code_suggestions_collected) = 1
    /\ hist.applied = {1}

\* a line of the form key = value
IsKeyValueLine(raw) ==
    LET line == Trim(raw)
    IN  line # <<>> /\ Head(line) # "#" /\ Len(SplitKeyValue(line)) = 2
KeyOf(raw) == SplitKeyValue(Trim(raw))[1]

C10_StructuredOnlyIfWholeTextDeserializes ==
    route # "none" =>
        /\ (\/ ~llm_response.json_ok
            \/ ~llm_response.has_suggestions
            \/ \E i \in 1..Len(llm_response.suggestions) :
                  llm_response.suggestions[i].type \notin SuggestionTypes)
           => /\ route = "fallback"
              /\ pc = "done"
              /\ reads = 0
              /\ hist.applied = {} /\ ~hist.deps_called
              /\ cargo_deps_to_add = <<>> /\ source_code_suggestions_collected = <<>>
              /\ cargo = hist.start_cargo
              /\ files = generate_code_files(hist.start_files, tech_stack, llm_response.text)
        /\ route = "structured"
           => /\ llm_response.json_ok /\ llm_response.has_suggestions
              /\ \A i \in 1..Len(llm_response.suggestions) :
                    llm_response.suggestions[i].type \in SuggestionTypes

C10_Witness ==
    /\ route = "fallback"
    /\ llm_response.json_ok /\ llm_response.has_suggestions
    /\ cargo.state = "table"
    /\ \E i, j \in 1..Len(llm_response.suggestions) :
          /\ llm_response.suggestions[i].type = "unknown_type"
          /\ llm_response.suggestions[j].type \in {"cargo_dependency", "source_code"}

-----------------------------------------------------------------------------
(* Claims about a response processed twice (SpecAuto) *)

IsAppend(sugg) ==
    \/ sugg.action = "append_to_file"
    \/ sugg.action = "add_import" /\ sugg.import_statement # <<>>

\* what an appending suggestion adds to its target
Appended(sugg) ==
    IF sugg.action = "append_to_file" THEN Text(sugg.content) \o <<"\n">>
    ELSE <<sugg.import_statement[1] \o "\n", "\n">>

\* C9 as stated: a response applied twice, everything approved, leaves
\* Cargo.toml and every file as the first application left them, whatever
\* the actions of its suggestions.
C9_SecondApplicationChangesNothing ==
    (pc = "done" /\ runs = 2 /\ route = "structured")
    => cargo = first.cargo /\ files = first.files

\* C9 as amended: a response applied twice, everything approved, leaves
\* Cargo.toml as the first application left it, and so every file that is
\* the target of create and replace suggestions only with no create after a
\* replace; an append_to_file or add_import suggestion that is the only one
\* for its target has appended its text once more.
C9_SecondApplicationAppendsOnly ==
    (pc = "done" /\ runs = 2 /\ route = "structured")
    => LET suggs == source_code_suggestions_collected
           n == Len(suggs)
       IN  /\ cargo = first.cargo
           /\ DOMAIN files = DOMAIN first.files
           /\ \A p \in DOMAIN files :
                 (/\ \A i \in 1..n : suggs[i].target_file = p => ~IsAppend(suggs[i])
                  /\ ~\E i, j \in 1..n :
                        /\ i < j
                        /\ suggs[i].target_file = p /\ suggs[j].target_file = p
                        /\ suggs[i].action = "replace" /\ suggs[j].action = "create")
                 => files[p] = first.files[p]
           /\ \A i \in 1..n :
                 (/\ IsAppend(suggs[i])
                  /\ \A j \in 1..n : suggs[j].target_file = suggs[i].target_file => j = i)
                 => files[suggs[i].target_file] =
                        first.files[suggs[i].target_file] \o Appended(suggs[i])

C9_Witness ==
    /\ pc = "done" /\ runs = 2 /\ route = "structured"
    /\ cargo.state = "table" /\ Len(cargo.deps) >= 2
    /\ \E i \in 1..Len(source_code_suggestions_collected) :
          LET sugg == source_code_suggestions_collected[i]
          IN  /\ sugg.action \in {"create", "replace"}
              /\ Exists(files, sugg.target_file)
              /\ files[sugg.target_file] = Text(sugg.content)

-----------------------------------------------------------------------------
(* Claims about add_cargo_dependencies (SpecCargo) *)

NoDuplicateKeys(deps) ==
    \A i, j \in 1..Len(deps) : deps[i].key = deps[j].key => i = j

\* the value a key = value line would be inserted with, when it can be
Insertable(raw) ==
    LET v == SplitKeyValue(Trim(raw))[2]
    IN  \/ ParsesAsTomlValue(v)
        \/ v # <<>> /\ Head(v) = "\"" /\ v[Len(v)] = "\""
ItemOf(raw) ==
    LET v == SplitKeyValue(Trim(raw))[2]
    IN  IF ParsesAsTomlValue(v) THEN TomlItem(v) ELSE TomlSimpleString(v)

\* C6: add_cargo_dependencies never duplicates or overwrites a dependency:
\* the entries the file had keep their place and value, no key occurs twice,
\* every entry added has the value of the first line that could insert its
\* key, and the same call made a second time changes nothing.
C6_NeverDuplicatesOrOverwrites ==
    call.count > 0 =>
        /\ call.before.state # "table" => cargo = call.before
        /\ call.before.state = "table" =>
              /\ cargo.state = "table"
              /\ NoDuplicateKeys(cargo.deps)
              /\ Len(cargo.deps) >= Len(call.before.deps)
              /\ \A i \in 1..Len(call.before.deps) : cargo.deps[i] = call.before.deps[i]
              /\ \A i \in (Len(call.before.deps) + 1)..Len(cargo.deps) :
                    \E k \in 1..Len(call.lines) :
                        /\ IsKeyValueLine(call.lines[k])
                        /\ KeyOf(call.lines[k]) = cargo.deps[i].key
                        /\ Insertable(call.lines[k])
                        /\ cargo.deps[i].val = ItemOf(call.lines[k])
                        /\ \A j \in 1..(k - 1) :
                              ~(/\ IsKeyValueLine(call.lines[j])
                                /\ KeyOf(call.lines[j]) = cargo.deps[i].key
                                /\ Insertable(call.lines[j]))
        /\ call.count = 2 => cargo = call.after_first

C6_Witness ==
    /\ call.count = 2
    /\ Len(cargo.deps) > Len(call.before.deps)
    /\ \E k \in 1..Len(call.lines) :
          /\ IsKeyValueLine(call.lines[k])
          /\ ContainsKey(call.before.deps, KeyOf(call.lines[k]))

-----------------------------------------------------------------------------
(* Claims about README.md and CHANGELOG.md (SpecDocs) *)

Occurrences(text, needle) ==
    Cardinality({i \in 1..(Len(text) - Len(needle) + 1) :
                    SubSeq(text, i, i + Len(needle) - 1) = needle})

\* the line of CHANGELOG.md that records a completion
CompletedLine(task) ==
    <<"- Completed: ">> \o task.story \o <<" (">> \o task.id \o <<")", "\n">>

\* the task of the last complete-task command
LastTask == backlog[FindTask(backlog, doc.id)]

\* C7: README.md and CHANGELOG.md hold at most one entry for a task however
\* many times tasks are completed, and completing a task that both documents
\* record already leaves both as they were.
C7_AtMostOneEntryPerTask ==
    /\ \A i \in 1..Len(backlog) :
          /\ Occurrences(readme.text, FeatureLine(backlog[i])) <= 1
          /\ Occurrences(changelog.text, CompletedLine(backlog[i])) <= 1
    /\ (/\ doc.n > 0 /\ doc.found
        /\ Contains(doc.readme_before.text, FeatureLine(LastTask))
        /\ Contains(doc.changelog_before.text, CompletedLine(LastTask)))
       => readme = doc.readme_before /\ changelog = doc.changelog_before

C7_Witness ==
    /\ doc.n > 0 /\ doc.found
    /\ Contains(doc.readme_before.text, FeatureLine(LastTask))
    /\ Contains(doc.changelog_before.text, CompletedLine(LastTask))
    /\ \E i \in 1..Len(backlog) :
          /\ backlog[i].id # doc.id
          /\ Contains(readme.text, FeatureLine(backlog[i]))

\* C8: after complete-task for a task of the backlog that neither document
\* has an entry for, README.md holds the task's feature line and
\* CHANGELOG.md its Completed line, whatever else the documents hold.
C8_CompletionIsRecorded ==
    (/\ doc.n > 0 /\ doc.found
     /\ ~Contains(doc.readme_before.text, FeatureLine(LastTask))
     /\ ~Contains(doc.changelog_before.text, CompletedLine(LastTask)))
    => /\ Contains(readme.text, FeatureLine(LastTask))
       /\ Contains(changelog.text, CompletedLine(LastTask))

-----------------------------------------------------------------------------
(* Claims about advice-only responses (Spec) *)

AdviceOnly(resp) ==
    /\ resp.json_ok /\ resp.has_suggestions
    /\ \A i \in 1..Len(resp.suggestions) : resp.suggestions[i].type = "general_advice"

\* C11: a valid structured response whose suggestions are all general_advice
\* takes the structured route, never the code-block fallback, reads no
\* input, ends without error and leaves Cargo.toml and every file as they
\* were.
C11_AdviceOnlyChangesNothing ==
    (route # "none" /\ AdviceOnly(llm_response)) =>
        /\ route = "structured"
        /\ reads = 0 /\ hist.prompts = <<>>
        /\ result # "err"
        /\ pc = "done" => result = "ok"
        /\ cargo = hist.start_cargo
        /\ files = hist.start_files
        /\ hist.applied = {} /\ ~hist.deps_called

C11_Witness ==
    /\ pc = "done" /\ result = "ok"
    /\ AdviceOnly(llm_response)
    /\ Len(llm_response.suggestions) = 2
    /\ ~auto_approve_deps /\ ~auto_approve_code
    /\ cargo.state = "table"
    /\ DOMAIN files # {}

-----------------------------------------------------------------------------
(* SpecConfig: init, load, validate and save commands, config.json edited *)
(* in between                                                             *)

InitConfig ==
    /\ cargo = NoCargo
    /\ files = NoFiles
    /\ tech_stack = <<"rust">>
    /\ Idle
    /\ call = NoCall
    /\ NoDocs
    /\ \E global \in GlobalFilePool, disk \in ProjectFilePool :
          config = NoConfig(global, disk)
    /\ fileop = NoFileOp
    /\ req = NoReq
    /\ planning = NoPlanning

NextConfig ==
    \/ \E name \in {"", "P"} : InitProject(name)
    \/ Load
    \/ Save
    \/ Validate
    \/ \E global \in GlobalEdits : EditGlobal(global)

SpecConfig == InitConfig /\ [][NextConfig]_vars

-----------------------------------------------------------------------------
(* Claims about the LLM configuration and project.json (SpecConfig) *)

\* the value a field resolves to: project, else global, else the default
FieldValue(project_cfg, global_cfg, field, default) ==
    IF project_cfg # None /\ project_cfg[1][field] # None THEN project_cfg[1][field][1]
    ELSE IF global_cfg # None /\ global_cfg[1][field] # None THEN global_cfg[1][field][1]
    ELSE default

ResolvedFieldByField(resolved, project_cfg, global_cfg) ==
    /\ resolved.model = FieldValue(project_cfg, global_cfg, "model", "deepseek-coder:6.7b")
    /\ resolved.timeout_ms = FieldValue(project_cfg, global_cfg, "timeout_ms", 180000)
    /\ resolved.host = FieldValue(project_cfg, global_cfg, "host", "localhost")
    /\ resolved.port = FieldValue(project_cfg, global_cfg, "port", 11434)

\* C12: the configuration a load or an init resolves has, field by field and
\* independently for model, timeout_ms, host and port, the project-level
\* value if present, otherwise the global one if present, otherwise the
\* default (deepseek-coder:6.7b, 180000, localhost, 11434). An init that
\* finds project.json leaves the Project in memory as it was resolved, so an
\* init counts while config.json has not been edited.
C12_ResolvedFieldByField ==
    (/\ config.out.ok /\ config.project.loaded
     /\ \/ config.out.op = "load"
        \/ config.out.op = "init" /\ config.edits = 0)
    => ResolvedFieldByField(config.project.resolved_llm_config,
                            config.project.meta.llm, config.global.llm)

C12_Witness ==
    /\ config.out.op = "load" /\ config.out.ok
    /\ config.edits = 0
    /\ config.project.meta.llm # None /\ config.global.llm # None
    /\ config.project.meta.llm[1].model = Some("m")
    /\ config.project.meta.llm[1].port = None
    /\ config.global.llm[1].port = Some(8080)
    /\ config.global.llm[1].model = Some("")
    /\ config.global.llm[1].host = None
    /\ config.project.meta.llm[1].host = None
    /\ config.project.resolved_llm_config =
          [model |-> "m", timeout_ms |-> 180000, host |-> "localhost", port |-> 8080]

\* C19: Project::validate fails exactly when the project name is empty, or
\* the resolved model is empty, or the resolved host is empty, or the
\* resolved port is 0.
C19_ValidateFailsExactlyOnEmptyOrZero ==
    (config.out.op = "validate") =>
        (~config.out.ok <=>
            \/ config.project.meta.name = ""
            \/ config.project.resolved_llm_config.model = ""
            \/ config.project.resolved_llm_config.host = ""
            \/ config.project.resolved_llm_config.port = 0)

C19_Witness ==
    /\ config.out.op = "validate" /\ ~config.out.ok
    /\ config.project.meta.name # ""
    /\ config.project.resolved_llm_config.model # ""
    /\ config.project.resolved_llm_config.host # ""
    /\ config.project.resolved_llm_config.port = 0
    /\ AndThen(config.project.meta.llm, "port") = None

\* C20: a load after a save gives the meta (with the LLM settings of the
\* project), backlog, sprints and current_sprint that were saved;
\* project.json never holds the resolved LLM configuration, and every load
\* resolves it again from config.json as it is then and the settings of the
\* project.
C20_SaveThenLoad ==
    /\ (config.saved # None) =>
          /\ config.disk.exists
          /\ config.disk.json.t = "obj"
          /\ DOMAIN config.disk.json.v = {"meta", "backlog", "sprints", "current_sprint"}
          /\ DOMAIN config.disk.json.v["meta"].v =
                {"name", "description", "created", "tech_stack", "tags", "llm"}
    /\ (config.out.op = "load" /\ config.out.ok /\ config.saved # None) =>
          /\ config.project.meta = config.saved[1].meta
          /\ config.project.backlog = config.saved[1].backlog
          /\ config.project.sprints = config.saved[1].sprints
          /\ config.project.current_sprint = config.saved[1].current_sprint
          /\ ResolvedFieldByField(config.project.resolved_llm_config,
                                  config.saved[1].meta.llm, config.global.llm)

C20_Witness ==
    /\ config.out.op = "load" /\ config.out.ok /\ config.saved # None
    /\ config.project.meta.llm # None
    /\ config.project.backlog # <<>>
    /\ config.project.sprints # <<>>
    /\ config.project.resolved_llm_config # config.saved[1].resolved_llm_config

-----------------------------------------------------------------------------
(* SpecFiles: create_file, replace_file_content and append_to_file called *)
(* in any order on a directory                                            *)

InitFiles ==
    /\ cargo = NoCargo
    /\ files \in FilesPool
    /\ tech_stack = <<"rust">>
    /\ Idle
    /\ call = NoCall
    /\ NoDocs
    /\ config = NoConfig(GlobalFile(None), MissingFile)
    /\ fileop = [NoFileOp EXCEPT
                    !.dirs = UNION {Parents(p) : p \in DOMAIN files},
                    !.dirs_before = UNION {Parents(p) : p \in DOMAIN files},
                    !.before = files]
    /\ req = NoReq
    /\ planning = NoPlanning

NextFiles ==
    \/ \E path \in PathPool, content \in ContentPool : CallCreateFile(path, content)
    \/ \E path \in PathPool, content \in ContentPool :
          CallReplaceFileContent(path, content)
    \/ \E path \in PathPool, content \in ContentPool : CallAppendToFile(path, content)

SpecFiles == InitFiles /\ [][NextFiles]_vars

OtherFilesUnchanged ==
    \A p \in (DOMAIN files \cup DOMAIN fileop.before) \ {fileop.path} :
        p \in DOMAIN files /\ p \in DOMAIN fileop.before /\ files[p] = fileop.before[p]

\* C13: create_file fails when the path exists and leaves the file (and
\* everything else) as it was; otherwise it succeeds, the parent
\* directories exist and the file holds exactly the given content.
C13_CreateFile ==
    fileop.op = "create" =>
        /\ OtherFilesUnchanged
        /\ IF fileop.path \in DOMAIN fileop.before
           THEN /\ ~fileop.ok
                /\ files[fileop.path] = fileop.before[fileop.path]
                /\ fileop.dirs = fileop.dirs_before
           ELSE /\ fileop.ok
                /\ fileop.path \in DOMAIN files
                /\ files[fileop.path] =
                      (IF fileop.content = "" THEN <<>> ELSE <<fileop.content>>)
                /\ Parents(fileop.path) \subseteq fileop.dirs

C13_Witness ==
    /\ fileop.op = "create" /\ fileop.ok
    /\ fileop.content # ""
    /\ ~(Parents(fileop.path) \subseteq fileop.dirs_before)
    /\ DOMAIN fileop.before # {}

\* C14: replace_file_content fails when the file does not exist and creates
\* nothing; when the file exists it succeeds and the file holds exactly the
\* new content, nothing of the old.
C14_ReplaceFileContent ==
    fileop.op = "replace" =>
        /\ OtherFilesUnchanged
        /\ fileop.dirs = fileop.dirs_before
        /\ IF fileop.path \notin DOMAIN fileop.before
           THEN ~fileop.ok /\ files = fileop.before
           ELSE /\ fileop.ok
                /\ files[fileop.path] =
                      (IF fileop.content = "" THEN <<>> ELSE <<fileop.content>>)

C14_Witness ==
    /\ fileop.op = "replace" /\ fileop.ok
    /\ Len(fileop.before[fileop.path]) >= 2
    /\ fileop.content # ""
    /\ fileop.content \notin Range(fileop.before[fileop.path])

\* C15: append_to_file always succeeds, creates the file and its parent
\* directories when missing, and leaves the file equal to what it held
\* before (nothing if new) followed by the content and one newline.
C15_AppendToFile ==
    fileop.op = "append" =>
        /\ fileop.ok
        /\ OtherFilesUnchanged
        /\ fileop.path \in DOMAIN files
        /\ Parents(fileop.path) \subseteq fileop.dirs
        /\ files[fileop.path] =
              (IF fileop.path \in DOMAIN fileop.before
               THEN fileop.before[fileop.path] ELSE <<>>)
              \o (IF fileop.content = "" THEN <<>> ELSE <<fileop.content>>)
              \o <<"\n">>

C15_Witness ==
    /\ fileop.op = "append"
    /\ fileop.n = 2
    /\ fileop.path \in DOMAIN fileop.before
    /\ fileop.before[fileop.path] # <<>>
    /\ fileop.content # ""

-----------------------------------------------------------------------------
(* SpecReq: requirement-analysis responses processed on a backlog *)

L_AsUser == <<" ", "Some text.", " ", "As a User", ", I want a feature.">>
L_UserStory == <<"##", " ", "User Story", " 1">>
L_UsId == <<"US-", "001: login">>
L_LowerId == <<"us-", "001: login">>
L_Plain == <<"Login">>
ReqLinePool == {L_AsUser, L_UserStory, L_UsId, L_LowerId, L_Plain}

StoryJson(title, priority) ==
    JObj([title |-> JStr(title), story |-> JStr("As a User..."),
          priority |-> JStr(priority), effort |-> JNum(3),
          acceptance_criteria |-> JArr(<<JStr("AC1")>>)])

StoryJsonPool ==
    {StoryJson("Login", "High"), StoryJson("Signup", "Critical"),
     StoryJson("Logout", "Medium"), StoryJson("Profile", "Low"),
     StoryJson("Search", "Unknown"), StoryJson("Export", "high")}

\* the one line of a compact JSON document with and without a story in it
L_JsonStories == <<"{", "user_stories", ": [{", "As a User", "...}]}">>
L_JsonEmpty == <<"{ ", "user_stories", ": [] }">>

StructuredResponse(stories) ==
    [json |-> Some(JObj([user_stories |-> JArr(stories)])),
     lines |-> <<IF stories = <<>> THEN L_JsonEmpty ELSE L_JsonStories>>]

\* documents that are not an LlmUserStoryResponse, and one with a field
\* more that is one
MissingPriority ==
    [json |-> Some(JObj([user_stories |-> JArr(<<
                 JObj([title |-> JStr("Login"), story |-> JStr("As a User..."),
                       effort |-> JNum(3), acceptance_criteria |-> JArr(<<>>)])>>)])),
     lines |-> <<L_JsonStories>>]
EffortAsString ==
    [json |-> Some(JObj([user_stories |-> JArr(<<
                 JObj([title |-> JStr("Login"), story |-> JStr("As a User..."),
                       priority |-> JStr("High"), effort |-> JStr("3"),
                       acceptance_criteria |-> JArr(<<>>)])>>)])),
     lines |-> <<L_JsonStories>>]
NoUserStoriesKey ==
    [json |-> Some(JObj([stories |-> JArr(<<>>)])), lines |-> <<<<"{ stories: [] }">>>>]
TruncatedJson ==
    [json |-> None, lines |-> <<<<"{ ", "user_stories", ": [ { title: Test ... ] }">>>>]
ExtraField ==
    [json |-> Some(JObj([user_stories |-> JArr(<<StoryJson("Login", "Low")>>),
                         notes |-> JStr("US-")])),
     lines |-> <<L_JsonStories>>]

TextResponse(lines) == [json |-> None, lines |-> lines]

ReqResponses ==
    {StructuredResponse(stories) : stories \in SeqsUpTo(StoryJsonPool, MaxStories)}
    \cup {TextResponse(lines) : lines \in SeqsUpTo(ReqLinePool, MaxReqLines)}
    \cup {MissingPriority, EffortAsString, NoUserStoriesKey, TruncatedJson, ExtraField}

OldItem(id, item_type, status) ==
    [id |-> id, item_type |-> item_type, title |-> "Old", story |-> "Old story",
     acceptance_criteria |-> <<>>, priority |-> "High", effort |-> 1,
     status |-> status, sprint |-> None, dependencies |-> <<>>]

\* the backlogs a project.json can hold before a response arrives
ReqBacklogPool ==
    {<<>>,
     <<OldItem(<<"BUG-", "001">>, "Bug", "Todo"), OldItem(<<"US-", "001">>, "UserStory", "Done")>>,
     <<OldItem(<<"US-", "007">>, "UserStory", "InProgress"),
       OldItem(<<"us-", "001">>, "Task", "Todo"),
       OldItem(<<"US-", "002">>, "UserStory", "Todo")>>,
     [i \in 1..9 |-> OldItem(StoryId(i), "UserStory", "Done")],
     [i \in 1..99 |-> OldItem(StoryId(i), "UserStory", "Done")]}

InitReq ==
    /\ cargo = NoCargo
    /\ files = NoFiles
    /\ tech_stack = <<"rust">>
    /\ Idle
    /\ call = NoCall
    /\ NoDocs
    /\ config = NoConfig(GlobalFile(None), MissingFile)
    /\ fileop = NoFileOp
    /\ \E items \in ReqBacklogPool :
          req = [NoReq EXCEPT !.backlog = items, !.before = items]
    /\ planning = NoPlanning

NextReq == \E response \in ReqResponses : ProcessRequirementAnalysis(response)

SpecReq == InitReq /\ [][NextReq]_vars

\* the stories of the last response, when it is an LlmUserStoryResponse
StoriesOfResponse == GetLlmUserStoryResponse(req.response).user_stories

\* a number below 1000 written with three digits
Digit(d) == <<"0", "1", "2", "3", "4", "5", "6", "7", "8", "9">>[d + 1]
ThreeDigits(n) == Digit((n \div 100) % 10) \o Digit((n \div 10) % 10) \o Digit(n % 10)

UserStoriesBefore ==
    Cardinality({i \in 1..Len(req.before) : req.before[i].id[1] = "US-"})

BacklogKeepsOldItems ==
    /\ Len(req.backlog) >= Len(req.before)
    /\ SubSeq(req.backlog, 1, Len(req.before)) = req.before

\* the items the last response added
AddedItems == SubSeq(req.backlog, Len(req.before) + 1, Len(req.backlog))

\* C16: the stories of a structured response are appended in response order
\* with status Todo, type UserStory and the IDs US-(n+1), US-(n+2), ... written
\* with three digits, n being the number of US- items before the response.
C16_StructuredStoriesAppendedInOrder ==
    (req.route = "structured") =>
        /\ BacklogKeepsOldItems
        /\ Len(AddedItems) = Len(StoriesOfResponse)
        /\ \A k \in 1..Len(AddedItems) :
              /\ AddedItems[k].id = <<"US-", ThreeDigits(UserStoriesBefore + k)>>
              /\ AddedItems[k].status = "Todo"
              /\ AddedItems[k].item_type = "UserStory"
              /\ AddedItems[k].title = StoriesOfResponse[k].title
              /\ AddedItems[k].story = StoriesOfResponse[k].story

C16_Witness ==
    /\ req.route = "structured"
    /\ Len(AddedItems) = 2
    /\ AddedItems[1].title # AddedItems[2].title
    /\ UserStoriesBefore > 0
    /\ UserStoriesBefore < Len(req.before)

\* a line that holds 'as a user' or 'user story' in any letter case, or 'US-'
LineNamesAStory(line) ==
    \E i \in 1..Len(line) :
        \/ to_lowercase(line[i]) \in {"as a user", "user story"}
        \/ line[i] = "US-"

StoryLinesOfResponse ==
    {i \in 1..Len(req.response.lines) : LineNamesAStory(req.response.lines[i])}

\* C17: the text fallback runs exactly when the response is not an
\* LlmUserStoryResponse: a response that is one adds its stories and nothing
\* else (nothing when user_stories is empty), and a response that is not one
\* adds one story per line naming a story, none when no line does.
C17_FallbackIffParsingFails ==
    (req.n > 0) =>
        /\ BacklogKeepsOldItems
        /\ (req.route = "fallback") <=> ~ParsesLlmUserStoryResponse(req.response)
        /\ ParsesLlmUserStoryResponse(req.response) =>
              /\ Len(AddedItems) = Len(StoriesOfResponse)
              /\ StoriesOfResponse = <<>> => req.backlog = req.before
        /\ ~ParsesLlmUserStoryResponse(req.response) =>
              /\ Len(AddedItems) = Cardinality(StoryLinesOfResponse)
              /\ StoryLinesOfResponse = {} => req.backlog = req.before

C17_Witness ==
    /\ req.route = "fallback"
    /\ Len(req.response.lines) = 2
    /\ Len(AddedItems) = 1
    /\ L_LowerId \in Range(req.response.lines)

C22_FallbackIdsAreConsecutive ==
    (req.route = "fallback") =>
        \A k \in 1..Len(AddedItems) :
            AddedItems[k].id = <<"US-", ThreeDigits(UserStoriesBefore + k)>>

-----------------------------------------------------------------------------
(* SpecPlan: plan-sprint run on a project *)

\* the backlog of setup_test_project_for_sprint_planning (sprint.rs:385-388)
\* and one without Todo items
PlanBacklogPool ==
    {<<PlanItem("US-001", 5, "Todo", None), PlanItem("US-002", 8, "Todo", None),
       PlanItem("US-003", 3, "Todo", None), PlanItem("US-004", 2, "Done", None)>>,
     <<PlanItem("US-004", 2, "Done", None)>>}

PlanSuggestion(ids) ==
    [failed |-> FALSE,
     json |-> Some(JObj([suggested_story_ids |-> JArr([i \in 1..Len(ids) |-> JStr(ids[i])]),
                         reasoning |-> JStr("These stories align with the goal.")]))]

\* responses that are no LlmSprintPlanResponse, one without reasoning, and a
\* call of the LLM that fails
MissingIdsField ==
    [failed |-> FALSE, json |-> Some(JObj([reasoning |-> JStr("This is invalid.")]))]
NotAPlan == [failed |-> FALSE, json |-> None]
NoReasoning ==
    [failed |-> FALSE,
     json |-> Some(JObj([suggested_story_ids |-> JArr(<<JStr("US-004"), JStr("US-003")>>)]))]
LlmCallFails == [failed |-> TRUE, json |-> None]

PlanResponses ==
    {PlanSuggestion(ids) : ids \in SeqsUpTo({"US-001", "US-002", "US-999"}, MaxSuggested)}
    \cup {MissingIdsField, NotAPlan, NoReasoning, LlmCallFails}

ChoicePool == {"yes", " Y", "no"}

ManualSelections ==
    SeqsUpTo({"1", " 3 ", "US-002", "US-004", ""}, MaxParts)
    \cup {<<"9">>, <<"0">>, <<" US-001", "1">>}

InitPlan ==
    /\ cargo = NoCargo
    /\ files = NoFiles
    /\ tech_stack = <<"rust">>
    /\ Idle
    /\ call = NoCall
    /\ NoDocs
    /\ config = NoConfig(GlobalFile(None), MissingFile)
    /\ fileop = NoFileOp
    /\ req = NoReq
    /\ \E items \in PlanBacklogPool :
          planning = [NoPlanning EXCEPT !.backlog = items, !.before = items]

\* the answer to the suggestions with an empty line as manual selection, and
\* the manual selections after suggestions that are refused, all unusable,
\* or missing
NextPlan ==
    \/ \E response \in PlanResponses, user_choice \in ChoicePool :
          plan("Implement auth features", response, user_choice, <<>>)
    \/ \E response \in {NotAPlan, PlanSuggestion(<<"US-999">>), PlanSuggestion(<<"US-001">>)},
          manual_selection \in ManualSelections :
          plan("Implement auth features", response, "no", manual_selection)
    \/ \E manual_selection \in ManualSelections :
          plan("Implement auth features", PlanSuggestion(<<"US-999">>), "yes",
               manual_selection)

SpecPlan == InitPlan /\ [][NextPlan]_vars

\* the sprint the last run of plan created
NewestSprint == planning.sprints[Len(planning.sprints)]

\* the sum of the efforts of the items assigned to a sprint
RECURSIVE EffortAssignedTo(_, _)
EffortAssignedTo(items, sprint_id) ==
    IF items = <<>> THEN 0
    ELSE (IF Head(items).sprint = Some(sprint_id) THEN Head(items).effort ELSE 0)
         + EffortAssignedTo(Tail(items), sprint_id)

\* C21: a sprint that plan creates has status Planning, completed_points 0,
\* total_points equal to the sum of the efforts of the backlog items assigned
\* to it, and every backlog item its stories list has the new sprint's ID in
\* its sprint field, for accepted suggestions and for manual selections.
C21_NewSprintTotalsAndAssignments ==
    planning.created =>
        /\ NewestSprint.status = "Planning"
        /\ NewestSprint.completed_points = 0
        /\ NewestSprint.total_points = EffortAssignedTo(planning.backlog, NewestSprint.id)
        /\ \A i \in 1..Len(planning.backlog) :
              planning.backlog[i].id \in Range(NewestSprint.stories)
                  => planning.backlog[i].sprint = Some(NewestSprint.id)

====
